---- MODULE Spec2Model ----
(***************************************************************************)
(* A model of the thinking-block reconciliation and tool-pairing engine of *)
(* opencode-antigravity-auth (src/plugin/request-helpers.ts).              *)
(*                                                                         *)
(* JSON values are modelled as records of a fixed shape, so that values of *)
(* different JavaScript types can be compared.  A content block ("part")   *)
(* is a record of the fields the filters read; a turn is a record with a   *)
(* role and the two places a block list can live (`parts`, `content`).     *)
(***************************************************************************)
EXTENDS Integers, Sequences, FiniteSets, TLC

VARIABLES
    contents,      \* the conversation handed to a filter (sequence of turns)
    sessionId,     \* the sessionId argument ("" when not supplied)
    cache,         \* the getCachedSignatureFn argument (NoFn when not supplied)
    isClaudeModel, \* the isClaudeModel argument
    keepThinking,  \* KEEP_THINKING_BLOCKS (OPENCODE_ANTIGRAVITY_KEEP_THINKING=1)
    called,        \* which entry point has run ("none" before the call)
    out,           \* what the entry point returned (or that it threw)
    pendingCalls,  \* PendingCallIndex: tool name -> queue of outstanding call ids
    orphanedCalls, \* PendingCallIndex: the pool of orphaned call ids
    recovered,     \* what recoverToolResponseID returned, result by result, in this pass
    walk,          \* deepFilterThinkingBlocks under way: the object graph, the visited set, the call stack
    upstream,      \* the Response handed to transformAntigravityResponse
    toolSchema     \* the JSON schema handed to cleanJSONSchemaForAntigravity

vars == <<contents, sessionId, cache, isClaudeModel, keepThinking, called, out,
          pendingCalls, orphanedCalls, recovered, walk, upstream, toolSchema>>

\* the arguments of a call, which the call does not change
args == <<contents, sessionId, cache, isClaudeModel, keepThinking>>

\* the state of a pairing-repair pass
pass == <<pendingCalls, orphanedCalls, recovered>>

\* the state of the entry points that work on something else than a conversation
others == <<walk, upstream, toolSchema>>

(***************************************************************************)
(* Bounds of the model.                                                    *)
(***************************************************************************)
MaxParts == 2      \* longest block list of the turn under test

(***************************************************************************)
(* Program constants.                                                      *)
(***************************************************************************)
MIN_SIGNATURE_LENGTH == 50

(***************************************************************************)
(* JSON values.  k is the JavaScript type; a string is the character s     *)
(* repeated n times (the tests build signatures as "a".repeat(60)); an     *)
(* object carries what the code reads of it: its own `text` and `thinking` *)
(* fields (a text token, or NoField) and whether it has a `cache_control`  *)
(* key.                                                                    *)
(***************************************************************************)
NoField == "<undefined>"

Undef == [k |-> "undefined", s |-> "", n |-> 0, t |-> NoField, th |-> NoField, cc |-> FALSE]

Null == [k |-> "null", s |-> "", n |-> 0, t |-> NoField, th |-> NoField, cc |-> FALSE]

Num == [k |-> "number", s |-> "123", n |-> 0, t |-> NoField, th |-> NoField, cc |-> FALSE]

Rep(c, len) == [k |-> "string", s |-> IF len = 0 THEN "" ELSE c, n |-> len, t |-> NoField, th |-> NoField, cc |-> FALSE]

Text(s) == Rep(s, IF s = "" THEN 0 ELSE 1)

Obj(innerText, innerThinking, hasCacheControl) ==
    [k |-> "object", s |-> "", n |-> 0, t |-> innerText, th |-> innerThinking, cc |-> hasCacheControl]

IsString(v) == v.k = "string"

\* typeof v === "object" && v !== null
IsObject(v) == v.k = "object"

\* JavaScript truthiness of a value
Truthy(v) == CASE v.k = "undefined" -> FALSE
               [] v.k = "null" -> FALSE
               [] v.k = "string" -> v.n > 0
               [] OTHER -> TRUE

\* a ?? b
Nullish(v) == v.k \in {"undefined", "null"}

(***************************************************************************)
(* Content blocks.  kind "object" is a JSON object; "null" and "primitive" *)
(* are the non-object elements an array may hold.  `tool` is the set of    *)
(* tool-carrying keys present on the block.                                *)
(***************************************************************************)
ToolKeys == {"tool_use_id", "tool_call_id", "tool_result", "tool_use", "toolUse",
             "functionCall", "functionResponse"}

\* a call identifier: absent, or a tag and a number ("call-1", "placeholder-2")
NoId == [tag |-> "absent", n |-> 0]

Plain == [kind |-> "object", type |-> NoField, thought |-> FALSE,
          text |-> Undef, thinking |-> Undef,
          signature |-> Undef, thoughtSignature |-> Undef,
          tool |-> {}, cache_control |-> FALSE, providerOptions |-> FALSE,
          name |-> NoField, id |-> NoId, is_error |-> FALSE, payload |-> NoField,
          data |-> NoField]

NullBlock == [Plain EXCEPT !.kind = "null"]

PrimBlock == [Plain EXCEPT !.kind = "primitive"]

\* !item || typeof item !== "object"
NotAnObject(item) == item.kind # "object"

\* request-helpers.ts isThinkingPart
isThinkingPart(part) ==
    \/ part.type = "thinking"
    \/ part.type = "redacted_thinking"
    \/ part.type = "reasoning"
    \/ part.thinking.k # "undefined"
    \/ part.thought = TRUE

\* request-helpers.ts hasSignatureField
hasSignatureField(part) ==
    part.signature.k # "undefined" \/ part.thoughtSignature.k # "undefined"

\* request-helpers.ts isToolBlock
isToolBlock(part) ==
    \/ part.type = "tool_use"
    \/ part.type = "tool_result"
    \/ part.tool # {}

(***************************************************************************)
(* The signature cache: getCachedSignatureFn(sessionId, text).  fn says    *)
(* whether a function was supplied; m maps <<sessionId, text>> to the      *)
(* cached signature, and every pair outside its domain to undefined.       *)
(***************************************************************************)
NoFn == [fn |-> FALSE, m |-> <<>>]

\* a variant keyed by the text alone: it answers from any session's entries
getCachedSignatureFn_AnySession(c, sid, text) ==
    IF \E k \in DOMAIN c.m : k[2] = text
    THEN c.m[CHOOSE k \in DOMAIN c.m : k[2] = text]
    ELSE Undef

getCachedSignatureFn(c, sid, text) ==
    IF <<sid, text>> \in DOMAIN c.m THEN c.m[<<sid, text>>] ELSE Undef

\* sessionId && getCachedSignatureFn
HaveCache(sid, c) == sid # "" /\ c.fn

\* request-helpers.ts hasValidSignature
hasValidSignature(part) ==
    LET signature == IF part.thought = TRUE THEN part.thoughtSignature ELSE part.signature
    IN  IsString(signature) /\ signature.n >= MIN_SIGNATURE_LENGTH

\* request-helpers.ts getSignature
getSignature(part) ==
    LET signature == IF part.thought = TRUE THEN part.thoughtSignature ELSE part.signature
    IN  IF IsString(signature) THEN signature ELSE Undef

\* request-helpers.ts getThinkingText (the result is a text token, "" when none)
getThinkingText(part) ==
    IF IsString(part.text) THEN part.text.s
    ELSE IF IsString(part.thinking) THEN part.thinking.s
    ELSE IF IsObject(part.text) /\ part.text.t # NoField THEN part.text.t
    ELSE IF IsObject(part.thinking)
            /\ (IF part.thinking.t # NoField THEN part.thinking.t ELSE part.thinking.th) # NoField
         THEN (IF part.thinking.t # NoField THEN part.thinking.t ELSE part.thinking.th)
    ELSE ""

\* a variant that trusts every well-formed signature, whatever the cache holds
isOurCachedSignature_AnyWellFormed(part, sid, c) == hasValidSignature(part)

\* request-helpers.ts isOurCachedSignature
isOurCachedSignature(part, sid, c) ==
    IF ~HaveCache(sid, c) THEN FALSE
    ELSE LET text == getThinkingText(part)
             partSignature == getSignature(part)
         IN  IF text = "" THEN FALSE
             ELSE IF ~Truthy(partSignature) THEN FALSE
             ELSE getCachedSignatureFn(c, sid, text) = partSignature

\* request-helpers.ts stripCacheControlRecursively, on a field's value
StripValue(v) == IF IsObject(v) THEN [v EXCEPT !.cc = FALSE] ELSE v

\* request-helpers.ts stripCacheControlRecursively, on a block
stripCacheControlRecursively(part) ==
    [part EXCEPT !.cache_control = FALSE, !.providerOptions = FALSE,
                 !.text = StripValue(part.text), !.thinking = StripValue(part.thinking),
                 !.signature = StripValue(part.signature),
                 !.thoughtSignature = StripValue(part.thoughtSignature)]

\* the `text` field as the Gemini and reasoning branches of sanitizeThinkingPart copy it
UnwrapText(v) ==
    IF IsObject(v) THEN (IF v.t # NoField THEN Text(v.t) ELSE v) ELSE v

\* the `thinking` field as the Anthropic branch of sanitizeThinkingPart builds it
UnwrapThinking(part) ==
    LET thinkingContent == IF Nullish(part.thinking) THEN part.text ELSE part.thinking
        maybeText == IF thinkingContent.t # NoField THEN thinkingContent.t ELSE thinkingContent.th
    IN  IF IsObject(thinkingContent)
        THEN (IF maybeText # NoField THEN Text(maybeText) ELSE Text(""))
        ELSE thinkingContent

\* request-helpers.ts sanitizeThinkingPart
sanitizeThinkingPart(part) ==
    IF part.thought = TRUE
    THEN [Plain EXCEPT !.thought = TRUE,
                       !.text = UnwrapText(part.text),
                       !.thoughtSignature = part.thoughtSignature]
    ELSE IF part.type = "thinking" \/ part.type = "redacted_thinking" \/ part.thinking.k # "undefined"
    THEN [Plain EXCEPT !.type = IF part.type = "redacted_thinking" THEN "redacted_thinking" ELSE "thinking",
                       !.thinking = UnwrapThinking(part),
                       !.signature = part.signature]
    ELSE IF part.type = "reasoning"
    THEN [Plain EXCEPT !.type = "reasoning",
                       !.text = UnwrapText(part.text),
                       !.signature = part.signature]
    ELSE stripCacheControlRecursively(part)

\* request-helpers.ts stripAllThinkingBlocks
stripAllThinkingBlocks(contentArray) ==
    LET keep(item) ==
            IF NotAnObject(item) THEN TRUE
            ELSE IF isToolBlock(item) THEN TRUE
            ELSE IF isThinkingPart(item) THEN FALSE
            ELSE IF hasSignatureField(item) THEN FALSE
            ELSE TRUE
    IN  SelectSeq(contentArray, keep)

\* a variant that writes the cached signature into `signature` whatever the block's style
RestoredPart_SignatureOnly(item, cachedSignature) == [item EXCEPT !.signature = cachedSignature]

\* filterContentArray, lines 957-972: the block with the cached signature written into it
RestoredPart(item, cachedSignature) ==
    IF item.thought = TRUE
    THEN [item EXCEPT !.thoughtSignature = cachedSignature]
    ELSE [item EXCEPT !.signature = cachedSignature]

\* filterContentArray: whether the loop pushes anything for this item
KeptByFilter(item, sid, c) ==
    IF NotAnObject(item) THEN TRUE
    ELSE IF isToolBlock(item) THEN TRUE
    ELSE IF ~isThinkingPart(item) /\ ~hasSignatureField(item) THEN TRUE
    ELSE IF isOurCachedSignature(item, sid, c) THEN TRUE
    ELSE IF HaveCache(sid, c)
    THEN LET text == getThinkingText(item)
             cachedSignature == getCachedSignatureFn(c, sid, text)
         IN  text # "" /\ Truthy(cachedSignature) /\ cachedSignature.n >= MIN_SIGNATURE_LENGTH
    ELSE FALSE

\* filterContentArray: what the loop pushes for an item it keeps
PushedByFilter(item, sid, c) ==
    IF NotAnObject(item) THEN item
    ELSE IF isToolBlock(item) THEN item
    ELSE IF ~isThinkingPart(item) /\ ~hasSignatureField(item) THEN item
    ELSE IF isOurCachedSignature(item, sid, c) THEN sanitizeThinkingPart(item)
    ELSE sanitizeThinkingPart(
             RestoredPart(item, getCachedSignatureFn(c, sid, getThinkingText(item))))

\* a variant without the Claude strip: every request takes the trust-based path
filterContentArray_TrustAlways(contentArray, sid, c, claude, keep) ==
    LET kept(item) == KeptByFilter(item, sid, c)
        filtered == SelectSeq(contentArray, kept)
    IN  [i \in 1..Len(filtered) |-> PushedByFilter(filtered[i], sid, c)]

\* request-helpers.ts filterContentArray
filterContentArray(contentArray, sid, c, claude, keep) ==
    IF claude /\ ~keep
    THEN stripAllThinkingBlocks(contentArray)
    ELSE LET kept(item) == KeptByFilter(item, sid, c)
             filtered == SelectSeq(contentArray, kept)
         IN  [i \in 1..Len(filtered) |-> PushedByFilter(filtered[i], sid, c)]

(***************************************************************************)
(* A call that may throw returns [threw, v]: reading a property of null    *)
(* raises a TypeError, which no caller in the file catches.               *)
(***************************************************************************)
Returned(v) == [threw |-> FALSE, v |-> v]

Threw == [threw |-> TRUE, v |-> <<>>]

RECURSIVE removeTrailingThinkingBlocks(_, _, _)
\* request-helpers.ts removeTrailingThinkingBlocks
removeTrailingThinkingBlocks(contentArray, sid, c) ==
    IF Len(contentArray) = 0 THEN Returned(contentArray)
    ELSE LET part == contentArray[Len(contentArray)]
         IN  IF part.kind = "null" THEN Threw
             ELSE IF part.kind # "object" \/ ~isThinkingPart(part) THEN Returned(contentArray)
             ELSE LET isValid == IF HaveCache(sid, c)
                                 THEN isOurCachedSignature(part, sid, c)
                                 ELSE hasValidSignature(part)
                  IN  IF isValid THEN Returned(contentArray)
                      ELSE removeTrailingThinkingBlocks(
                               SubSeq(contentArray, 1, Len(contentArray) - 1), sid, c)
(***************************************************************************)
(* Turns.  A turn is an element of the conversation array: a JSON object   *)
(* with a role and possibly `parts` and `content`, or a non-object.  The   *)
(* value of `parts` / `content` is an array of blocks, a string, or absent.*)
(***************************************************************************)
NoArray == [k |-> "undefined", a |-> <<>>]

Arr(blocks) == [k |-> "array", a |-> blocks]

StrContent == [k |-> "string", a |-> <<>>]

Turn(role, parts, content) == [kind |-> "object", role |-> role, parts |-> parts, content |-> content]

NullTurn == [kind |-> "null", role |-> NoField, parts |-> NoArray, content |-> NoArray]

\* filterUnsignedThinkingBlocks, lines 997-1010: a turn whose `parts` is an array
FilterParts(turn, sid, c, claude, keep) ==
    LET filteredParts == filterContentArray(turn.parts.a, sid, c, claude, keep)
        trimmedParts == IF turn.role = "model" /\ ~claude
                        THEN removeTrailingThinkingBlocks(filteredParts, sid, c)
                        ELSE Returned(filteredParts)
    IN  IF trimmedParts.threw THEN Threw
        ELSE Returned([turn EXCEPT !.parts = Arr(trimmedParts.v)])

\* a variant that hands the filtered list back under `parts`
FilterContent_IntoParts(turn, sid, c, claude, keep) ==
    LET filteredContent == filterContentArray(turn.content.a, sid, c, claude, keep)
    IN  Returned([turn EXCEPT !.parts = Arr(filteredContent), !.content = NoArray])

\* lines 1012-1026 and 1046-1060: a turn whose `content` is an array
FilterContent(turn, sid, c, claude, keep) ==
    LET isAssistantRole == turn.role = "assistant"
        filteredContent == filterContentArray(turn.content.a, sid, c, claude, keep)
        trimmedContent == IF isAssistantRole /\ ~claude
                          THEN removeTrailingThinkingBlocks(filteredContent, sid, c)
                          ELSE Returned(filteredContent)
    IN  IF trimmedContent.threw THEN Threw
        ELSE Returned([turn EXCEPT !.content = Arr(trimmedContent.v)])

\* the callback filterUnsignedThinkingBlocks maps over the conversation
FilterUnsignedTurn(turn, sid, c, claude, keep) ==
    IF turn.kind # "object" THEN Returned(turn)
    ELSE IF turn.parts.k = "array" THEN FilterParts(turn, sid, c, claude, keep)
    ELSE IF turn.content.k = "array" THEN FilterContent(turn, sid, c, claude, keep)
    ELSE Returned(turn)

\* the callback filterMessagesThinkingBlocks maps over the messages
FilterMessagesTurn(turn, sid, c, claude, keep) ==
    IF turn.kind # "object" THEN Returned(turn)
    ELSE IF turn.content.k = "array" THEN FilterContent(turn, sid, c, claude, keep)
    ELSE Returned(turn)

\* request-helpers.ts filterUnsignedThinkingBlocks
filterUnsignedThinkingBlocks(conv, sid, c, claude, keep) ==
    LET mapped == [i \in 1..Len(conv) |-> FilterUnsignedTurn(conv[i], sid, c, claude, keep)]
    IN  IF \E i \in 1..Len(conv) : mapped[i].threw THEN Threw
        ELSE Returned([i \in 1..Len(conv) |-> mapped[i].v])

\* request-helpers.ts filterMessagesThinkingBlocks
filterMessagesThinkingBlocks(conv, sid, c, claude, keep) ==
    LET mapped == [i \in 1..Len(conv) |-> FilterMessagesTurn(conv[i], sid, c, claude, keep)]
    IN  IF \E i \in 1..Len(conv) : mapped[i].threw THEN Threw
        ELSE Returned([i \in 1..Len(conv) |-> mapped[i].v])

\* request-helpers.ts deepFilterThinkingBlocks, on a payload that holds the conversation
\* under `key` (at any depth: walk descends through every key of every object); the turns
\* and blocks it then walks into hold no `contents` / `messages` array of their own
deepFilterThinkingBlocks(key, conv, sid, c, claude, keep) ==
    IF key = "contents" THEN filterUnsignedThinkingBlocks(conv, sid, c, claude, keep)
    ELSE IF key = "messages" THEN filterMessagesThinkingBlocks(conv, sid, c, claude, keep)
    ELSE Returned(conv)

(***************************************************************************)
(* Inputs.  Signatures as the tests build them: SigA is the signature the  *)
(* cache holds for text "A", SigF a well-formed signature of another       *)
(* provider, SigShort a malformed one ("sig123").                          *)
(***************************************************************************)
SigA == Rep("a", 60)

SigF == Rep("f", 60)

SigShort == Rep("s", 6)

Sessions == {"", "session-1"}

\* the cache knows text "A" only
CacheA == [fn |-> TRUE, m |-> (<<"session-1", "A">> :> SigA)]

\* the cache also holds a malformed entry for text "B"
CacheAB == [fn |-> TRUE, m |-> (<<"session-1", "A">> :> SigA) @@ (<<"session-1", "B">> :> SigShort)]

Caches == {NoFn, CacheA, CacheAB}

\* every block over the field values below: one block of a request, in any wire style
RichBlocks ==
    { [Plain EXCEPT !.type = ty, !.thought = th, !.text = tx, !.thinking = tk,
                    !.signature = sg, !.thoughtSignature = ts, !.tool = tl,
                    !.cache_control = cc, !.providerOptions = cc] :
        ty \in {NoField, "thinking", "redacted_thinking", "reasoning", "text"},
        th \in BOOLEAN,
        tx \in {Undef, Null, Text(""), Text("A"), Text("B"), Obj("A", NoField, TRUE), Obj(NoField, NoField, TRUE)},
        tk \in {Undef, Null, Text("A"), Obj(NoField, "A", TRUE)},
        sg \in {Undef, Num, SigA, SigF, SigShort},
        ts \in {Undef, SigA},
        tl \in {{}, {"functionCall"}},
        cc \in BOOLEAN }

\* the blocks that conversations are built from
TextBlock == [Plain EXCEPT !.type = "text", !.text = Text("A")]

FunctionCall == [Plain EXCEPT !.tool = {"functionCall"}]

ToolResultSigned == [Plain EXCEPT !.type = "tool_result", !.tool = {"tool_use_id"}, !.signature = SigShort]

ThoughtfulCall == [Plain EXCEPT !.tool = {"functionCall"}, !.thought = TRUE, !.text = Text("A")]

SignedThinking == [Plain EXCEPT !.type = "thinking", !.thinking = Text("A"), !.signature = SigA]

UnsignedThought == [Plain EXCEPT !.thought = TRUE, !.text = Text("A")]

ForeignThinking == [Plain EXCEPT !.type = "thinking", !.thinking = Text("B"), !.signature = SigF]

TwoTextThinking == [Plain EXCEPT !.type = "thinking", !.text = Text("A"), !.thinking = Text("B"), !.signature = SigA]

SignedUnknown == [Plain EXCEPT !.type = "text", !.text = Text("A"), !.signature = SigF]

CoreBlocks == {TextBlock, FunctionCall, ToolResultSigned, ThoughtfulCall, SignedThinking,
               UnsignedThought, ForeignThinking, TwoTextThinking, SignedUnknown, NullBlock}

RECURSIVE SeqsUpTo(_, _)
\* the sequences over S of length at most n
SeqsUpTo(S, n) ==
    IF n = 0 THEN {<<>>}
    ELSE LET shorter == SeqsUpTo(S, n - 1)
         IN  shorter \cup {Append(q, x) : q \in {r \in shorter : Len(r) = n - 1}, x \in S}

BlockLists == SeqsUpTo(CoreBlocks, MaxParts)

Roles == {"model", "assistant", "user"}

\* the turn under test: its blocks under `parts`, under `content`, or under both
TurnsUnderTest ==
    {Turn(r, Arr(b), NoArray) : r \in Roles, b \in BlockLists}
    \cup {Turn(r, NoArray, Arr(b)) : r \in Roles, b \in BlockLists}
    \cup {Turn(r, Arr(<<TextBlock>>), Arr(b)) : r \in Roles, b \in BlockLists}

\* what may precede it: nothing, a non-object element, a message whose content is a string
Prefixes == {<<>>, <<NullTurn>>, <<Turn("user", NoArray, StrContent)>>}

Conversations == {p \o <<t>> : p \in Prefixes, t \in TurnsUnderTest}

\* no pairing-repair pass is under way
NoPass == pendingCalls = <<>> /\ orphanedCalls = <<>> /\ recovered = <<>>

\* no payload is being walked
NoWalk == [status |-> "none", heap |-> <<>>, root |-> 0, visited |-> {}, frames |-> <<>>]

\* no response has arrived
NoResponse == [status |-> 0]

\* no schema is at hand
NoSchema == [k |-> "undefined", s |-> <<>>, a |-> <<>>, f |-> <<>>]

\* nothing but a conversation is at hand
NoOthers == walk = NoWalk /\ upstream = NoResponse /\ toolSchema = NoSchema

(***************************************************************************)
(* The filters as a state machine: a request arrives (Init), and one of    *)
(* the exported filters is called on it.                                   *)
(***************************************************************************)
Init ==
    /\ contents \in Conversations
    /\ sessionId \in Sessions
    /\ cache \in Caches
    /\ isClaudeModel \in BOOLEAN
    /\ keepThinking \in BOOLEAN
    /\ called = "none"
    /\ out = Returned(<<>>)
    /\ NoPass
    /\ NoOthers

CallFilterUnsigned ==
    /\ called = "none"
    /\ called' = "filterUnsignedThinkingBlocks"
    /\ out' = filterUnsignedThinkingBlocks(contents, sessionId, cache, isClaudeModel, keepThinking)
    /\ UNCHANGED <<args, pass, others>>

CallFilterMessages ==
    /\ called = "none"
    /\ called' = "filterMessagesThinkingBlocks"
    /\ out' = filterMessagesThinkingBlocks(contents, sessionId, cache, isClaudeModel, keepThinking)
    /\ UNCHANGED <<args, pass, others>>

Next == CallFilterUnsigned \/ CallFilterMessages

Spec == Init /\ [][Next]_vars

(***************************************************************************)
(* The same two filters, called without session and cache or with a        *)
(* session and a cache function.                                           *)
(***************************************************************************)
InitShape ==
    /\ contents \in Conversations
    /\ \E lookup \in {<<"", NoFn>>, <<"session-1", CacheA>>, <<"session-1", CacheAB>>} :
           sessionId = lookup[1] /\ cache = lookup[2]
    /\ isClaudeModel \in BOOLEAN
    /\ keepThinking \in BOOLEAN
    /\ called = "none"
    /\ out = Returned(<<>>)
    /\ NoPass
    /\ NoOthers

NextShape == CallFilterUnsigned \/ CallFilterMessages

SpecShape == InitShape /\ [][NextShape]_vars

(***************************************************************************)
(* filterContentArray on one block of any shape.                           *)
(***************************************************************************)
InitBlock ==
    /\ contents \in {<<Turn("user", Arr(<<b>>), NoArray)>> : b \in RichBlocks}
    /\ sessionId \in Sessions
    /\ cache \in Caches
    /\ isClaudeModel \in BOOLEAN
    /\ keepThinking \in BOOLEAN
    /\ called = "none"
    /\ out = Returned(<<>>)
    /\ NoPass
    /\ NoOthers

CallFilterContentArray ==
    /\ called = "none"
    /\ called' = "filterContentArray"
    /\ out' = Returned(filterContentArray(contents[1].parts.a, sessionId, cache,
                                          isClaudeModel, keepThinking))
    /\ UNCHANGED <<args, pass, others>>

NextBlock == CallFilterContentArray

SpecBlock == InitBlock /\ [][NextBlock]_vars

(***************************************************************************)
(* sanitizeThinkingPart on one block of any shape.                         *)
(***************************************************************************)
InitSanitize ==
    /\ contents \in {<<Turn("user", Arr(<<b>>), NoArray)>> : b \in RichBlocks}
    /\ sessionId = ""
    /\ cache = NoFn
    /\ isClaudeModel = FALSE
    /\ keepThinking = FALSE
    /\ called = "none"
    /\ out = Returned(<<>>)
    /\ NoPass
    /\ NoOthers

CallSanitizeThinkingPart ==
    /\ called = "none"
    /\ called' = "sanitizeThinkingPart"
    /\ out' = Returned(<<sanitizeThinkingPart(contents[1].parts.a[1])>>)
    /\ UNCHANGED <<args, pass, others>>

NextSanitize == CallSanitizeThinkingPart

SpecSanitize == InitSanitize /\ [][NextSanitize]_vars

(***************************************************************************)
(* The filters under the Claude default policy: isClaudeModel is set and   *)
(* the keep-thinking override is off.  The request is filtered by one of   *)
(* the exported filters, or as the payload of deepFilterThinkingBlocks.    *)
(***************************************************************************)
PayloadKeys == {"contents", "messages"}

InitStrip ==
    /\ contents \in Conversations
    /\ sessionId \in Sessions
    /\ cache \in Caches
    /\ isClaudeModel = TRUE
    /\ keepThinking = FALSE
    /\ called = "none"
    /\ out = Returned(<<>>)
    /\ NoPass
    /\ NoOthers

CallDeepFilter ==
    /\ called = "none"
    /\ \E key \in PayloadKeys :
           /\ called' = IF key = "contents" THEN "deepFilterThinkingBlocks(contents)"
                        ELSE "deepFilterThinkingBlocks(messages)"
           /\ out' = deepFilterThinkingBlocks(key, contents, sessionId, cache,
                                               isClaudeModel, keepThinking)
    /\ UNCHANGED <<args, pass, others>>

NextStrip == CallFilterUnsigned \/ CallFilterMessages \/ CallDeepFilter

SpecStrip == InitStrip /\ [][NextStrip]_vars
(***************************************************************************)
(* Tool-call pairing (specification 4.5).  The repository exports the      *)
(* functions of this section (its tests import them), but their code is    *)
(* not among the sources: they are modelled from the specification and     *)
(* from the tests in request-helpers.test.ts.                              *)
(***************************************************************************)
CallId(n) == [tag |-> "call", n |-> n]

\* an identifier no call carries
StrayId == [tag |-> "stray", n |-> 0]

\* the n-th identifier the placeholder generator makes: "placeholder-<n>"
PlaceholderId(n) == [tag |-> "placeholder", n |-> n]

TOOL_RESPONSE_UNAVAILABLE == "tool response unavailable"

IsToolCall(b) == b.kind = "object" /\ (b.type = "tool_use" \/ "functionCall" \in b.tool)

IsToolResult(b) == b.kind = "object" /\ (b.type = "tool_result" \/ "functionResponse" \in b.tool)

\* the block list of a turn, under `parts` or under `content`
TurnBlocks(turn) ==
    IF turn.kind # "object" THEN <<>>
    ELSE IF turn.parts.k = "array" THEN turn.parts.a
    ELSE IF turn.content.k = "array" THEN turn.content.a
    ELSE <<>>

\* the turn with its block list replaced
SetTurnBlocks(turn, blocks) ==
    IF turn.kind # "object" THEN turn
    ELSE IF turn.parts.k = "array" THEN [turn EXCEPT !.parts = Arr(blocks)]
    ELSE IF turn.content.k = "array" THEN [turn EXCEPT !.content = Arr(blocks)]
    ELSE turn

RECURSIVE BlocksFrom(_, _)
\* the blocks of turns i, i+1, ... of the conversation, each with the index of its turn
BlocksFrom(conv, i) ==
    IF i > Len(conv) THEN <<>>
    ELSE [j \in 1..Len(TurnBlocks(conv[i])) |-> [t |-> i, b |-> TurnBlocks(conv[i])[j]]]
         \o BlocksFrom(conv, i + 1)

\* the tool calls of the conversation, in the order they were issued
ToolCalls(conv) == LET call(x) == IsToolCall(x.b) IN SelectSeq(BlocksFrom(conv, 1), call)

\* the tool results of the conversation, in the order they arrive
ToolResults(conv) == LET result(x) == IsToolResult(x.b) IN SelectSeq(BlocksFrom(conv, 1), result)

\* validate: a call id with no result in a later turn is an orphaned call, a result's
\* correlation id with no originating call is an orphaned result
validateToolPairing(conv) ==
    LET calls == ToolCalls(conv)
        results == ToolResults(conv)
        answered(c) == \E j \in 1..Len(results) : results[j].b.id = c.b.id /\ results[j].t > c.t
        originated(r) == \E i \in 1..Len(calls) : calls[i].b.id = r.b.id
        orphanedToolCalls ==
            {calls[i].b.id : i \in {n \in 1..Len(calls) : calls[n].b.id # NoId /\ ~answered(calls[n])}}
        orphanedToolResponses ==
            {results[j].b.id : j \in {n \in 1..Len(results) : results[n].b.id # NoId /\ ~originated(results[n])}}
    IN  [valid |-> orphanedToolCalls = {} /\ orphanedToolResponses = {},
         orphanedToolCalls |-> orphanedToolCalls,
         orphanedToolResponses |-> orphanedToolResponses]

\* the calls that carry an id which no result of the conversation carries
Outstanding(conv) ==
    LET results == ToolResults(conv)
        open(x) == x.b.id # NoId /\ ~\E j \in 1..Len(results) : results[j].b.id = x.b.id
    IN  SelectSeq(ToolCalls(conv), open)

\* the results that lack a correlation id, in arrival order
Unidentified(conv) == LET noId(x) == x.b.id = NoId IN SelectSeq(ToolResults(conv), noId)

\* the tool names those results carry
MatchedNames(conv) == {Unidentified(conv)[k].b.name : k \in 1..Len(Unidentified(conv))}

(***************************************************************************)
(* PendingCallIndex.  pendingCalls is a Map from tool name to a queue of   *)
(* call ids: a sequence of entries in insertion order.  orphanedCalls is   *)
(* the pool of the calls whose name no result could be matched to.         *)
(***************************************************************************)
\* pendingCalls.get(name) ?? []
MapGet(m, name) ==
    LET hit(e) == e.name = name
    IN  IF SelectSeq(m, hit) = <<>> THEN <<>> ELSE SelectSeq(m, hit)[1].ids

\* push id on the queue of name, creating the queue when the name is new
MapPush(m, name, id) ==
    IF \E i \in 1..Len(m) : m[i].name = name
    THEN [i \in 1..Len(m) |-> IF m[i].name = name THEN [m[i] EXCEPT !.ids = Append(@, id)] ELSE m[i]]
    ELSE Append(m, [name |-> name, ids |-> <<id>>])

RECURSIVE QueueCalls(_, _)
QueueCalls(m, calls) ==
    IF calls = <<>> THEN m
    ELSE QueueCalls(MapPush(m, Head(calls).b.name, Head(calls).b.id), Tail(calls))

\* the index at the start of a pass: outstanding calls queued by name, in issue order
BuildPendingCalls(conv) ==
    LET named(x) == x.b.name \in MatchedNames(conv)
    IN  QueueCalls(<<>>, SelectSeq(Outstanding(conv), named))

\* the pool at the start of a pass: outstanding calls whose name no result names
BuildOrphanedCalls(conv) ==
    LET unnamed(x) == x.b.name \notin MatchedNames(conv)
        pool == SelectSeq(Outstanding(conv), unnamed)
    IN  [i \in 1..Len(pool) |-> pool[i].b.id]

NoWarning == [defined |-> FALSE, tool |-> NoField]

\* a warning string that names the unmatched tool
Warning(tool) == [defined |-> TRUE, tool |-> tool]

Recovery(id, level, warning) == [id |-> id, recoveryLevel |-> level, warning |-> warning]

IsPending(m, id) == \E i \in 1..Len(m) : \E k \in 1..Len(m[i].ids) : m[i].ids[k] = id

\* the queues that still hold a call, in Map order
NonEmptyQueues(m) == LET nonEmpty(e) == e.ids # <<>> IN SelectSeq(m, nonEmpty)

\* a variant that looks in the orphan pool before the queue of the result's name
recoverToolResponseID_PoolFirst(response, pending, orphans, fresh) ==
    IF orphans # <<>>
    THEN Recovery(Head(orphans), "orphan", Warning(response.name))
    ELSE IF MapGet(pending, response.name) # <<>>
    THEN Recovery(Head(MapGet(pending, response.name)), "name", NoWarning)
    ELSE Recovery(PlaceholderId(fresh), "placeholder", Warning(response.name))

\* a variant that stays silent when it serves a result from the orphan pool
recoverToolResponseID_SilentPool(response, pending, orphans, fresh) ==
    IF response.id # NoId /\ IsPending(pending, response.id)
    THEN Recovery(response.id, "exact", NoWarning)
    ELSE IF MapGet(pending, response.name) # <<>>
    THEN Recovery(Head(MapGet(pending, response.name)), "name", NoWarning)
    ELSE IF orphans # <<>>
    THEN Recovery(Head(orphans), "orphan", NoWarning)
    ELSE IF NonEmptyQueues(pending) # <<>>
    THEN Recovery(Head(NonEmptyQueues(pending)[1].ids), "fallback", Warning(response.name))
    ELSE Recovery(PlaceholderId(fresh), "placeholder", Warning(response.name))

\* recoverToolResponseID(response, pendingCalls, orphanedCalls); fresh is the state of
\* the placeholder generator
recoverToolResponseID(response, pending, orphans, fresh) ==
    IF response.id # NoId /\ IsPending(pending, response.id)
    THEN Recovery(response.id, "exact", NoWarning)
    ELSE IF MapGet(pending, response.name) # <<>>
    THEN Recovery(Head(MapGet(pending, response.name)), "name", NoWarning)
    ELSE IF orphans # <<>>
    THEN Recovery(Head(orphans), "orphan", Warning(response.name))
    ELSE IF NonEmptyQueues(pending) # <<>>
    THEN Recovery(Head(NonEmptyQueues(pending)[1].ids), "fallback", Warning(response.name))
    ELSE Recovery(PlaceholderId(fresh), "placeholder", Warning(response.name))

RemoveId(ids, id) == LET other(x) == x # id IN SelectSeq(ids, other)

\* a variant of the pass that never takes a matched call out of its queue
ConsumePending_Nothing(m, id) == m

\* a matched call leaves its queue
ConsumePending(m, id) == [i \in 1..Len(m) |-> [m[i] EXCEPT !.ids = RemoveId(@, id)]]

\* a matched call leaves the pool
ConsumeOrphans(orphans, id) == RemoveId(orphans, id)

(***************************************************************************)
(* The repair pass.  Results that lack an id get one from the index, one   *)
(* result at a time; the calls that are still without a result then get a  *)
(* synthesized error result in the next consumer turn.                     *)
(***************************************************************************)
RECURSIVE Identify(_, _)
\* the block list, with the recovered ids written into its results that lack one
Identify(blocks, rec) ==
    IF blocks = <<>> THEN <<>>
    ELSE IF IsToolResult(Head(blocks)) /\ Head(blocks).id = NoId /\ rec # <<>>
    THEN <<[Head(blocks) EXCEPT !.id = Head(rec).id]>> \o Identify(Tail(blocks), Tail(rec))
    ELSE <<Head(blocks)>> \o Identify(Tail(blocks), rec)

\* how many results of the block list lack an id
CountUnidentified(blocks) ==
    LET noId(b) == IsToolResult(b) /\ b.id = NoId IN Len(SelectSeq(blocks, noId))

RECURSIVE IdentifyTurns(_, _)
IdentifyTurns(conv, rec) ==
    IF conv = <<>> THEN <<>>
    ELSE LET blocks == TurnBlocks(Head(conv))
             n == CountUnidentified(blocks)
         IN  <<SetTurnBlocks(Head(conv), Identify(blocks, rec))>>
             \o IdentifyTurns(Tail(conv), SubSeq(rec, n + 1, Len(rec)))

\* the synthesized result of a call that has none
UnavailableResult(id) ==
    [Plain EXCEPT !.type = "tool_result", !.tool = {"tool_use_id"}, !.id = id,
                  !.is_error = TRUE, !.payload = TOOL_RESPONSE_UNAVAILABLE]

\* a variant that synthesizes a result for every call of the turn, answered or not
MissingResults_EveryCall(turn, conv) ==
    LET call(b) == IsToolCall(b) /\ b.id # NoId
        calls == SelectSeq(TurnBlocks(turn), call)
    IN  [k \in 1..Len(calls) |-> UnavailableResult(calls[k].id)]

\* the synthesized results for the calls of a turn that have no result anywhere
MissingResults(turn, conv) ==
    LET results == ToolResults(conv)
        open(b) == IsToolCall(b) /\ b.id # NoId
                   /\ ~\E j \in 1..Len(results) : results[j].b.id = b.id
        calls == SelectSeq(TurnBlocks(turn), open)
    IN  [k \in 1..Len(calls) |-> UnavailableResult(calls[k].id)]

\* a consumer turn that holds a block list
IsConsumerTurn(turn) ==
    turn.kind = "object" /\ turn.role = "user"
    /\ (turn.parts.k = "array" \/ turn.content.k = "array")

\* a new consumer turn, in the wire shape of the producer turn it answers
NewConsumerTurn(producer, blocks) ==
    IF producer.parts.k = "array" THEN Turn("user", Arr(blocks), NoArray)
    ELSE Turn("user", NoArray, Arr(blocks))

RECURSIVE InjectFrom(_, _)
\* turns i, i+1, ... of the conversation with the synthesized results in place
InjectFrom(conv, i) ==
    IF i > Len(conv) THEN <<>>
    ELSE LET missing == MissingResults(conv[i], conv)
         IN  IF missing = <<>> THEN <<conv[i]>> \o InjectFrom(conv, i + 1)
             ELSE IF i < Len(conv) /\ IsConsumerTurn(conv[i + 1])
             THEN <<conv[i], SetTurnBlocks(conv[i + 1], missing \o TurnBlocks(conv[i + 1]))>>
                  \o InjectFrom(conv, i + 2)
             ELSE <<conv[i], NewConsumerTurn(conv[i], missing)>> \o InjectFrom(conv, i + 1)

\* repair: the conversation with recovered ids and synthesized results
fixToolPairing(conv, rec) == InjectFrom(IdentifyTurns(conv, rec), 1)

(***************************************************************************)
(* Inputs of the pairing pass: a model turn of calls (each with its own    *)
(* id), possibly followed by a user turn of results, with or without id.   *)
(***************************************************************************)
MaxCalls == 3      \* most calls of the model turn

MaxResults == 3    \* most results without id of the user turn

ToolNames == {"bash", "read"}

ResultNames == ToolNames \cup {"unknown_tool"}

Call(name, id) == [Plain EXCEPT !.tool = {"functionCall"}, !.name = name, !.id = id]

Result(name, id) == [Plain EXCEPT !.tool = {"functionResponse"}, !.name = name, !.id = id]

CallLists ==
    {[i \in 1..Len(names) |-> Call(names[i], CallId(i))] : names \in SeqsUpTo(ToolNames, MaxCalls)}

\* the results that arrive without id, under any name
UnidentifiedResults == {Result(n, NoId) : n \in ResultNames}

\* they arrive alone, after the result of the first call, or before a result of no call
ResultLists ==
    UNION {{r, <<Result("bash", CallId(1))>> \o r, r \o <<Result("bash", StrayId)>>} :
           r \in SeqsUpTo(UnidentifiedResults, MaxResults)}

ToolConversations ==
    {<<Turn("model", Arr(c), NoArray)>> : c \in CallLists}
    \cup {<<Turn("model", Arr(c), NoArray), Turn("user", Arr(r), NoArray)>> :
            c \in CallLists, r \in ResultLists}

\* how many placeholder ids the pass has generated
Placeholders(rec) == Cardinality({k \in 1..Len(rec) : rec[k].recoveryLevel = "placeholder"})

InitPair ==
    /\ contents \in ToolConversations
    /\ sessionId = ""
    /\ cache = NoFn
    /\ isClaudeModel = TRUE
    /\ keepThinking = FALSE
    /\ called = "none"
    /\ out = Returned(<<>>)
    /\ pendingCalls = BuildPendingCalls(contents)
    /\ orphanedCalls = BuildOrphanedCalls(contents)
    /\ recovered = <<>>
    /\ NoOthers

\* the next result that lacks an id gets one from the index
RecoverNext ==
    /\ called = "none"
    /\ Len(recovered) < Len(Unidentified(contents))
    /\ LET response == Unidentified(contents)[Len(recovered) + 1].b
           r == recoverToolResponseID([name |-> response.name, id |-> response.id],
                                      pendingCalls, orphanedCalls, Placeholders(recovered) + 1)
       IN  /\ recovered' = Append(recovered, r)
           /\ pendingCalls' = ConsumePending(pendingCalls, r.id)
           /\ orphanedCalls' = ConsumeOrphans(orphanedCalls, r.id)
    /\ UNCHANGED <<args, called, out, others>>

\* every result has an id: synthesize the missing results and return
FinishRepair ==
    /\ called = "none"
    /\ Len(recovered) = Len(Unidentified(contents))
    /\ called' = "fixToolPairing"
    /\ out' = Returned(fixToolPairing(contents, recovered))
    /\ UNCHANGED <<args, pass, others>>

NextPair == RecoverNext \/ FinishRepair

SpecPair == InitPair /\ [][NextPair]_vars

(***************************************************************************)
(* recoverToolResponseID on its own, as the tests call it: an index (the   *)
(* calls of a model turn, some queued by name, the others in the pool) and *)
(* one incoming result, with or without an id.                             *)
(***************************************************************************)
\* the index over a call list whose calls at the positions of pool are in the orphan pool
IndexOf(calls, pool) ==
    LET tagged == [i \in 1..Len(calls) |-> [t |-> 1, b |-> calls[i]]]
        queued(x) == x.b.id.n \notin pool
        pooled(x) == x.b.id.n \in pool
    IN  [pending |-> QueueCalls(<<>>, SelectSeq(tagged, queued)),
         orphans |-> [i \in 1..Len(SelectSeq(tagged, pooled)) |-> SelectSeq(tagged, pooled)[i].b.id]]

PendingIndexes == UNION {{IndexOf(c, pool) : pool \in SUBSET (1..Len(c))} : c \in CallLists}

\* the incoming result: any name; no id, the id of the first call, or an id no call has
Responses == {Result(n, id) : n \in ResultNames, id \in {NoId, CallId(1), StrayId}}

\* the result handed to recoverToolResponseID
TheResponse == TurnBlocks(contents[1])[1]

InitRecover ==
    /\ contents \in {<<Turn("user", Arr(<<r>>), NoArray)>> : r \in Responses}
    /\ sessionId = ""
    /\ cache = NoFn
    /\ isClaudeModel = TRUE
    /\ keepThinking = FALSE
    /\ called = "none"
    /\ out = Returned(<<>>)
    /\ \E index \in PendingIndexes :
           /\ pendingCalls = index.pending
           /\ orphanedCalls = index.orphans
    /\ recovered = <<>>
    /\ NoOthers

CallRecoverToolResponseID ==
    /\ called = "none"
    /\ called' = "recoverToolResponseID"
    /\ recovered' = <<recoverToolResponseID([name |-> TheResponse.name, id |-> TheResponse.id],
                                            pendingCalls, orphanedCalls, 1)>>
    /\ UNCHANGED <<args, out, pendingCalls, orphanedCalls, others>>

NextRecover == CallRecoverToolResponseID

SpecRecover == InitRecover /\ [][NextRecover]_vars

(***************************************************************************)
(* Tool-use invariant repair for the Claude family (specification 4.4),    *)
(* sanitizeThinkingForClaude(contents, thinkingEnabled, getCachedSignature)*)
(* Like the pairing functions, it is modelled from the specification and   *)
(* the tests: its code is not among the sources.                           *)
(***************************************************************************)
\* the fixed, publicly known bypass provenance tag
BYPASS_SIGNATURE == Text("BYPASS_SIGNATURE")

\* the thinking block that is injected when a turn has none
SyntheticThinking ==
    [Plain EXCEPT !.thought = TRUE, !.text = Text("[Thinking]"), !.thoughtSignature = BYPASS_SIGNATURE]

\* a thinking block, tool blocks taking precedence
IsThinkingBlock(b) == b.kind = "object" /\ ~isToolBlock(b) /\ isThinkingPart(b)

\* the least index of a set of indices, 0 when the set is empty
FirstOf(indices) ==
    IF indices = {} THEN 0 ELSE CHOOSE i \in indices : \A j \in indices : i <= j

\* findIndex of the first tool call, 0 when there is none
FirstToolCall(blocks) == FirstOf({i \in 1..Len(blocks) : IsToolCall(blocks[i])})

\* findIndex of the first thinking block, 0 when there is none
FirstThinking(blocks) == FirstOf({i \in 1..Len(blocks) : IsThinkingBlock(blocks[i])})

\* the signature to attach to a thinking block: the trusted one, or the bypass tag
SignatureFor(b, sid, c) ==
    LET cachedSignature == IF HaveCache(sid, c) /\ getThinkingText(b) # ""
                           THEN getCachedSignatureFn(c, sid, getThinkingText(b))
                           ELSE Undef
    IN  IF IsString(cachedSignature) /\ cachedSignature.n >= MIN_SIGNATURE_LENGTH
        THEN cachedSignature
        ELSE BYPASS_SIGNATURE

\* a thinking block with the signature it may carry downstream
Retag(b, sid, c) ==
    IF ~IsThinkingBlock(b) THEN b
    ELSE IF b.thought = TRUE THEN [b EXCEPT !.thoughtSignature = SignatureFor(b, sid, c)]
    ELSE [b EXCEPT !.signature = SignatureFor(b, sid, c)]

\* a variant that puts the missing thinking block at the end of the turn
EnsureThinkingBeforeTool_AtEnd(blocks) ==
    IF FirstToolCall(blocks) = 0 \/ FirstThinking(blocks) # 0 THEN blocks
    ELSE Append(blocks, SyntheticThinking)

\* a turn with a tool call gets a thinking block ahead of its first tool call: one that
\* comes later is moved to the front, and when there is none one is injected
EnsureThinkingBeforeTool(blocks) ==
    LET call == FirstToolCall(blocks)
        thinking == FirstThinking(blocks)
    IN  IF call = 0 THEN blocks
        ELSE IF thinking = 0
        THEN SubSeq(blocks, 1, call - 1) \o <<SyntheticThinking>> \o SubSeq(blocks, call, Len(blocks))
        ELSE IF thinking < call THEN blocks
        ELSE <<blocks[thinking]>> \o SubSeq(blocks, 1, thinking - 1)
             \o SubSeq(blocks, thinking + 1, Len(blocks))

\* sanitizeThinkingForClaude on one turn
SanitizeTurnForClaude(turn, thinkingEnabled, sid, c) ==
    IF turn.kind # "object" \/ turn.role # "model" \/ turn.parts.k # "array" THEN turn
    ELSE IF ~thinkingEnabled THEN [turn EXCEPT !.parts = Arr(stripAllThinkingBlocks(turn.parts.a))]
    ELSE LET ordered == EnsureThinkingBeforeTool(turn.parts.a)
         IN  [turn EXCEPT !.parts = Arr([i \in 1..Len(ordered) |-> Retag(ordered[i], sid, c)])]

sanitizeThinkingForClaude(conv, thinkingEnabled, sid, c) ==
    [i \in 1..Len(conv) |-> SanitizeTurnForClaude(conv[i], thinkingEnabled, sid, c)]

(***************************************************************************)
(* Inputs: a model turn over the blocks of the tests, alone, before the    *)
(* user turn that answers it, or after a user turn.                        *)
(***************************************************************************)
MaxTurnBlocks == 3 \* longest model turn handed to sanitizeThinkingForClaude

BypassThought == [Plain EXCEPT !.thought = TRUE, !.text = Text("B"), !.thoughtSignature = BYPASS_SIGNATURE]

OrderBlocks == {TextBlock, Call("bash", NoId), Call("read", CallId(1)), UnsignedThought,
                BypassThought, ForeignThinking}

OrderConversations ==
    UNION {{<<Turn("model", Arr(b), NoArray)>>,
            <<Turn("model", Arr(b), NoArray), Turn("user", Arr(<<Result("bash", NoId)>>), NoArray)>>,
            <<Turn("user", Arr(<<TextBlock>>), NoArray), Turn("model", Arr(b), NoArray)>>} :
           b \in SeqsUpTo(OrderBlocks, MaxTurnBlocks)}

InitOrder ==
    /\ contents \in OrderConversations
    /\ sessionId \in Sessions
    /\ cache \in {NoFn, CacheA}
    /\ isClaudeModel = TRUE
    /\ keepThinking = FALSE
    /\ called = "none"
    /\ out = Returned(<<>>)
    /\ NoPass
    /\ NoOthers

CallSanitizeThinkingForClaude ==
    /\ called = "none"
    /\ \E thinkingEnabled \in BOOLEAN :
           /\ called' = IF thinkingEnabled THEN "sanitizeThinkingForClaude(thinking enabled)"
                        ELSE "sanitizeThinkingForClaude(thinking disabled)"
           /\ out' = Returned(sanitizeThinkingForClaude(contents, thinkingEnabled, sessionId, cache))
    /\ UNCHANGED <<args, pass, others>>

NextOrder == CallSanitizeThinkingForClaude

SpecOrder == InitOrder /\ [][NextOrder]_vars

(***************************************************************************)
(* Tool-loop-aware turn closure (specification 4.4),                       *)
(* analyzeConversationState and closeToolLoopForThinking.  Modelled from   *)
(* the specification and the tests: the code is not among the sources.     *)
(***************************************************************************)
\* the two fixed closure texts
TOOL_LOOP_CLOSE_MODEL == Text("TOOL_LOOP_CLOSE_MODEL")

TOOL_LOOP_CLOSE_USER == Text("TOOL_LOOP_CLOSE_USER")

\* the greatest index of a set of indices, 0 when the set is empty
LastOf(indices) ==
    IF indices = {} THEN 0 ELSE CHOOSE i \in indices : \A j \in indices : j <= i

\* the index of the model turn that the last turn answers, 0 when there is none
IssuingTurn(conv) ==
    LastOf({i \in 1..(Len(conv) - 1) : conv[i].kind = "object" /\ conv[i].role = "model"})

\* analyzeConversationState(contents).inToolLoop: the last turn is a tool-result turn
inToolLoop(conv) ==
    /\ conv # <<>>
    /\ conv[Len(conv)].kind = "object" /\ conv[Len(conv)].role = "user"
    /\ \E j \in 1..Len(TurnBlocks(conv[Len(conv)])) : IsToolResult(TurnBlocks(conv[Len(conv)])[j])

\* analyzeConversationState(contents).turnHasThinking: the issuing turn holds a thinking block
turnHasThinking(conv) ==
    /\ IssuingTurn(conv) # 0
    /\ \E j \in 1..Len(TurnBlocks(conv[IssuingTurn(conv)])) :
           IsThinkingBlock(TurnBlocks(conv[IssuingTurn(conv)])[j])

\* a variant that appends the continuation prompt before the acknowledgement
ClosingTurns_UserFirst ==
    <<Turn("user", Arr(<<[Plain EXCEPT !.text = TOOL_LOOP_CLOSE_USER]>>), NoArray),
      Turn("model", Arr(<<[Plain EXCEPT !.text = TOOL_LOOP_CLOSE_MODEL]>>), NoArray)>>

\* the two synthetic turns: a neutral acknowledgement, then a neutral continuation prompt
ClosingTurns ==
    <<Turn("model", Arr(<<[Plain EXCEPT !.text = TOOL_LOOP_CLOSE_MODEL]>>), NoArray),
      Turn("user", Arr(<<[Plain EXCEPT !.text = TOOL_LOOP_CLOSE_USER]>>), NoArray)>>

closeToolLoopForThinking(conv) ==
    IF inToolLoop(conv) /\ ~turnHasThinking(conv) THEN conv \o ClosingTurns ELSE conv

\* a model turn over the blocks of the tests; then nothing, a tool-result turn (with or
\* without id), or a user turn of text; after nothing or after a user turn of text
LoopConversations ==
    {p \o <<Turn("model", Arr(b), NoArray)>> \o e :
        p \in {<<>>, <<Turn("user", Arr(<<TextBlock>>), NoArray)>>},
        b \in SeqsUpTo(OrderBlocks, MaxTurnBlocks),
        e \in {<<>>,
                <<Turn("user", Arr(<<Result("bash", NoId)>>), NoArray)>>,
                <<Turn("user", Arr(<<Result("read", CallId(1))>>), NoArray)>>,
                <<Turn("user", Arr(<<TextBlock>>), NoArray)>>}}

InitLoop ==
    /\ contents \in LoopConversations
    /\ sessionId = ""
    /\ cache = NoFn
    /\ isClaudeModel = TRUE
    /\ keepThinking = FALSE
    /\ called = "none"
    /\ out = Returned(<<>>)
    /\ NoPass
    /\ NoOthers

CallCloseToolLoopForThinking ==
    /\ called = "none"
    /\ called' = "closeToolLoopForThinking"
    /\ out' = Returned(closeToolLoopForThinking(contents))
    /\ UNCHANGED <<args, pass, others>>

NextLoop == CallCloseToolLoopForThinking

SpecLoop == InitLoop /\ [][NextLoop]_vars

(***************************************************************************)
(* deepFilterThinkingBlocks on an object graph.  The payload is a heap of  *)
(* cells addressed by references 1..Len(heap): arrays of references and    *)
(* objects.  An object carries what a turn carries (role, `parts`,         *)
(* `content`) and three keys that refer to further cells: `contents`,      *)
(* `messages` and a wrapper key (`extra_body`), listed in that order by    *)
(* Object.keys.  Block lists hold blocks without nested containers, so     *)
(* walking into them visits them and changes nothing.  walk(value) is one  *)
(* step; the frames are the pending iterations of the calls under way.     *)
(***************************************************************************)
MaxCallStack == 8    \* the depth at which the engine raises RangeError

\* the key is absent
NoRef == 0

ArrayCell(items) == [kind |-> "array", items |-> items]

Node(turn, contentsRef, messagesRef, extraRef) ==
    [kind |-> turn.kind, role |-> turn.role, parts |-> turn.parts, content |-> turn.content,
     contents |-> contentsRef, messages |-> messagesRef, extra_body |-> extraRef]

\* an object that is not a turn: the payload itself, or the value of a wrapper key
Wrapper(contentsRef, messagesRef, extraRef) ==
    Node(Turn(NoField, NoArray, NoArray), contentsRef, messagesRef, extraRef)

\* the elements of the array at reference a
TurnsAt(heap, a) == [i \in 1..Len(heap[a].items) |-> heap[heap[a].items[i]]]

\* the filters return `{ ...content, parts }` / `{ ...message, content }`, a new object,
\* for an element whose block list they read, and the element itself otherwise
Rebuilt(key, turn) ==
    /\ turn.kind = "object"
    /\ IF key = "contents" THEN turn.parts.k = "array" \/ turn.content.k = "array"
       ELSE turn.content.k = "array"

\* the heap once obj[key], the array at reference a, is replaced by the filter's
\* result: the result is a new array; every rebuilt element is a new cell
Replaced(heap, o, key, a, turns, res) ==
    LET fresh == {i \in 1..Len(turns) : Rebuilt(key, turns[i])}
        rank(i) == Cardinality({j \in fresh : j <= i})
        slot(n) == CHOOSE i \in fresh : rank(i) = n
        count == Cardinality(fresh)
        items == [i \in 1..Len(turns) |->
                     IF i \in fresh THEN Len(heap) + rank(i) ELSE heap[a].items[i]]
        cells == [n \in 1..count |-> res.v[slot(n)]]
        grown == heap \o cells \o <<ArrayCell(items)>>
    IN  IF res.threw THEN Threw
        ELSE Returned([grown EXCEPT ![o][key] = Len(heap) + count + 1])

\* lines 1092-1108: obj[key] = filter(obj[key]) for the object at reference o
FilterKey(heap, o, key, sid, c, claude, keep) ==
    IF heap[o][key] = NoRef THEN Returned(heap)
    ELSE IF heap[heap[o][key]].kind # "array" THEN Returned(heap)
    ELSE Replaced(heap, o, key, heap[o][key], TurnsAt(heap, heap[o][key]),
                  deepFilterThinkingBlocks(key, TurnsAt(heap, heap[o][key]),
                                           sid, c, claude, keep))

\* the `messages` key, once the `contents` key is done
ThenMessages(first, o, sid, c, claude, keep) ==
    IF first.threw THEN Threw
    ELSE FilterKey(first.v, o, "messages", sid, c, claude, keep)

\* lines 1092-1108: both keys of the object at reference o
FilterObject(heap, o, sid, c, claude, keep) ==
    ThenMessages(FilterKey(heap, o, "contents", sid, c, claude, keep),
                 o, sid, c, claude, keep)

\* line 1110: the values walk is called on for an object, in key order
ChildrenOf(cell) == <<cell.contents, cell.messages, cell.extra_body>>

\* the value that the call under way walks next
NextValue == Head(walk.frames[Len(walk.frames)])

\* the frames once that value is taken
Advanced ==
    [walk.frames EXCEPT ![Len(walk.frames)] = Tail(walk.frames[Len(walk.frames)])]

Walking == walk.status = "walking" /\ walk.frames # <<>>

\* a new call of walk on top of the frames, or the engine's RangeError
Push(w, frames, frame) ==
    IF Len(frames) >= MaxCallStack
    THEN [w EXCEPT !.status = "overflow"]
    ELSE [w EXCEPT !.frames = Append(frames, frame)]

\* the payload graphs of the model, each around one turn
PayloadShapes == {"contents", "messages", "extra_body.contents", "extra_body.messages",
                  "shared", "with null", "turn.messages", "cycle", "cycle.messages"}

Payload(shape, turn) ==
    CASE shape = "contents" ->
            <<Wrapper(2, NoRef, NoRef), ArrayCell(<<3>>), Node(turn, NoRef, NoRef, NoRef)>>
      [] shape = "messages" ->
            <<Wrapper(NoRef, 2, NoRef), ArrayCell(<<3>>), Node(turn, NoRef, NoRef, NoRef)>>
      [] shape = "extra_body.contents" ->
            <<Wrapper(NoRef, NoRef, 2), Wrapper(3, NoRef, NoRef), ArrayCell(<<4>>),
              Node(turn, NoRef, NoRef, NoRef)>>
      [] shape = "extra_body.messages" ->
            <<Wrapper(NoRef, NoRef, 2), Wrapper(NoRef, 3, NoRef), ArrayCell(<<4>>),
              Node(turn, NoRef, NoRef, NoRef)>>
      [] shape = "shared" ->
            <<Wrapper(2, 2, NoRef), ArrayCell(<<3>>), Node(turn, NoRef, NoRef, NoRef)>>
      [] shape = "with null" ->
            <<Wrapper(2, NoRef, NoRef), ArrayCell(<<3, 4>>),
              Node(NullTurn, NoRef, NoRef, NoRef), Node(turn, NoRef, NoRef, NoRef)>>
      [] shape = "turn.messages" ->
            <<Wrapper(2, NoRef, NoRef), ArrayCell(<<3>>),
              Node(Turn("user", Arr(<<TextBlock>>), NoArray), NoRef, 4, NoRef),
              ArrayCell(<<5>>), Node(turn, NoRef, NoRef, NoRef)>>
      [] shape = "cycle" ->
            <<Wrapper(2, NoRef, NoRef), ArrayCell(<<3>>), Node(turn, 2, NoRef, NoRef)>>
      [] shape = "cycle.messages" ->
            <<Wrapper(NoRef, 2, NoRef), ArrayCell(<<3>>), Node(turn, NoRef, 2, NoRef)>>

DeepBlocks == {TextBlock, FunctionCall, SignedThinking, UnsignedThought, ForeignThinking, NullBlock}

DeepBlockLists == SeqsUpTo(DeepBlocks, MaxParts)

DeepTurns ==
    {Turn(r, Arr(b), NoArray) : r \in {"model", "assistant"}, b \in DeepBlockLists}
    \cup {Turn(r, NoArray, Arr(b)) : r \in {"model", "assistant"}, b \in DeepBlockLists}
    \cup {Turn("user", NoArray, StrContent)}

InitDeep ==
    /\ contents \in {<<t>> : t \in DeepTurns}
    /\ sessionId = "session-1"
    /\ cache \in {NoFn, CacheA}
    /\ isClaudeModel \in BOOLEAN
    /\ keepThinking \in BOOLEAN
    /\ called = "none"
    /\ out = Returned(<<>>)
    /\ NoPass
    /\ \E shape \in PayloadShapes :
           walk = [status |-> "idle", heap |-> Payload(shape, contents[1]), root |-> 1,
                   visited |-> {}, frames |-> <<>>]
    /\ upstream = NoResponse
    /\ toolSchema = NoSchema

\* line 1113: walk(payload)
CallDeepFilterPayload ==
    /\ called = "none"
    /\ walk.status = "idle"
    /\ called' = "deepFilterThinkingBlocks"
    /\ walk' = [walk EXCEPT !.status = "walking", !.frames = <<<<walk.root>>>>]
    /\ UNCHANGED <<args, out, pass, upstream, toolSchema>>

\* lines 1075-1081: walk returns at once on a non-object and on a visited object
WalkSkip ==
    /\ Walking /\ walk.frames[Len(walk.frames)] # <<>>
    /\ IF NextValue = NoRef THEN TRUE
       ELSE walk.heap[NextValue].kind = "null" \/ NextValue \in walk.visited
    /\ walk' = [walk EXCEPT !.frames = Advanced]
    /\ UNCHANGED <<args, called, out, pass, upstream, toolSchema>>

\* lines 1083-1088: an array is marked and walk is called on each of its items
WalkArray ==
    /\ Walking /\ walk.frames[Len(walk.frames)] # <<>>
    /\ NextValue # NoRef /\ NextValue \notin walk.visited
    /\ walk.heap[NextValue].kind = "array"
    /\ walk' = Push([walk EXCEPT !.visited = @ \cup {NextValue}], Advanced,
                    walk.heap[NextValue].items)
    /\ UNCHANGED <<args, called, out, pass, upstream, toolSchema>>

\* the walk once the object's keys are filtered: the filter's TypeError, or the call
\* of walk on the value of each key
Entered(res) ==
    IF res.threw THEN [walk EXCEPT !.status = "threw"]
    ELSE Push([walk EXCEPT !.visited = @ \cup {NextValue}, !.heap = res.v],
              Advanced, ChildrenOf(res.v[NextValue]))

\* lines 1083, 1090-1110: an object is marked, its `contents` and `messages` are replaced
\* by their filtered copies, and walk is called on the value of each of its keys
WalkObject ==
    /\ Walking /\ walk.frames[Len(walk.frames)] # <<>>
    /\ NextValue # NoRef /\ NextValue \notin walk.visited
    /\ walk.heap[NextValue].kind = "object"
    /\ walk' = Entered(FilterObject(walk.heap, NextValue, sessionId, cache, isClaudeModel,
                                     keepThinking))
    /\ UNCHANGED <<args, called, out, pass, upstream, toolSchema>>

\* a call of walk has gone through its items: it returns; line 1114 when it is the first
WalkReturn ==
    /\ Walking /\ walk.frames[Len(walk.frames)] = <<>>
    /\ walk' = [walk EXCEPT !.frames = SubSeq(@, 1, Len(@) - 1),
                            !.status = IF Len(walk.frames) = 1 THEN "returned" ELSE @]
    /\ UNCHANGED <<args, called, out, pass, upstream, toolSchema>>

NextDeep == CallDeepFilterPayload \/ WalkSkip \/ WalkArray \/ WalkObject \/ WalkReturn

SpecDeep == InitDeep /\ [][NextDeep]_vars

\* the payloads whose walk is followed to its end: the graphs above around a turn with at
\* most one block
WalkTurns ==
    {Turn(r, Arr(b), NoArray) : r \in {"model", "user"},
                                b \in SeqsUpTo({TextBlock, SignedThinking, NullBlock}, 1)}
    \cup {Turn(r, NoArray, Arr(b)) : r \in {"model", "user"},
                                     b \in SeqsUpTo({TextBlock, SignedThinking, NullBlock}, 1)}
    \cup {Turn("user", NoArray, StrContent)}

InitWalk ==
    /\ contents \in {<<t>> : t \in WalkTurns}
    /\ sessionId = "session-1"
    /\ cache = NoFn
    /\ isClaudeModel \in BOOLEAN
    /\ keepThinking = FALSE
    /\ called = "none"
    /\ out = Returned(<<>>)
    /\ NoPass
    /\ \E shape \in PayloadShapes :
           walk = [status |-> "idle", heap |-> Payload(shape, contents[1]), root |-> 1,
                   visited |-> {}, frames |-> <<>>]
    /\ upstream = NoResponse
    /\ toolSchema = NoSchema

\* walk runs as long as it has something to do
SpecWalk == InitWalk /\ [][NextDeep]_vars /\ WF_vars(NextDeep)

(***************************************************************************)
(* The compatibility layer (compat.ts): assistant messages synthesized by  *)
(* another plugin lack a leading thinking block; the fix prepends a        *)
(* redacted_thinking block.  A message is a turn with one more field,      *)
(* `model`, standing for the properties the fix does not look at.          *)
(***************************************************************************)
DCP_SYNTHETIC_REDACTED_THINKING == [Plain EXCEPT !.type = "redacted_thinking", !.data = "W0RDUF0="]

\* compat.ts isThinkingBlock
isThinkingBlock(block) ==
    IF NotAnObject(block) THEN FALSE
    ELSE block.type = "thinking" \/ block.type = "redacted_thinking"

\* a variant that prepends the synthetic block whatever the array holds
ensureThinkingBlockInContent_Always(content) == <<DCP_SYNTHETIC_REDACTED_THINKING>> \o content

\* compat.ts ensureThinkingBlockInContent
ensureThinkingBlockInContent(content) ==
    IF Len(content) = 0 THEN content
    ELSE IF isThinkingBlock(content[1]) THEN content
    ELSE <<DCP_SYNTHETIC_REDACTED_THINKING>> \o content

\* the value of `content` / `parts` is null
NullContent == [k |-> "null", a |-> <<>>]

\* truthiness of the value of `content` / `parts` (a string content is not empty)
TruthyField(f) == f.k \in {"array", "string"}

\* compat.ts line 41
ContentKey(msg) ==
    IF TruthyField(msg.content) THEN "content"
    ELSE IF TruthyField(msg.parts) THEN "parts"
    ELSE "null"

\* the callback fixDcpSyntheticMessages maps over the messages
FixDcpMessage(message) ==
    IF message.kind # "object" THEN message
    ELSE IF message.role # "assistant" THEN message
    ELSE LET contentKey == ContentKey(message)
         IN  IF contentKey = "null" THEN message
             ELSE LET contentArray == message[contentKey]
                  IN  IF contentArray.k # "array" THEN message
                      ELSE LET fixedContent == ensureThinkingBlockInContent(contentArray.a)
                           IN  IF fixedContent = contentArray.a THEN message
                               ELSE [message EXCEPT ![contentKey] = Arr(fixedContent)]

\* compat.ts fixDcpSyntheticMessages
fixDcpSyntheticMessages(messages) ==
    [i \in 1..Len(messages) |-> FixDcpMessage(messages[i])]

\* compat.ts applyCompatibilityFixes
applyCompatibilityFixes(messages, isClaudeThinkingModel) ==
    IF ~isClaudeThinkingModel THEN messages
    ELSE fixDcpSyntheticMessages(messages)

Message(role, parts, content, model) ==
    [kind |-> "object", role |-> role, parts |-> parts, content |-> content, model |-> model]

NullMessage == [kind |-> "null", role |-> NoField, parts |-> NoArray, content |-> NoArray,
                model |-> NoField]

ToolUse == [Plain EXCEPT !.type = "tool_use", !.name = "bash"]

RedactedThinking == [Plain EXCEPT !.type = "redacted_thinking", !.data = "abc123"]

CompatBlocks == {TextBlock, ToolUse, SignedThinking, RedactedThinking, UnsignedThought, NullBlock}

CompatBlockLists == SeqsUpTo(CompatBlocks, MaxParts)

\* the message under test: any role, its blocks under `content`, under `parts`, or (short
\* lists) under both
CompatMessages ==
    {Message(r, NoArray, c, "claude-3") :
        r \in {"assistant", "user"},
        c \in {NoArray, NullContent, StrContent} \cup {Arr(b) : b \in CompatBlockLists}}
    \cup {Message(r, Arr(b), c, "claude-3") :
        r \in {"assistant", "user"}, b \in CompatBlockLists, c \in {NoArray, NullContent}}
    \cup {Message(r, Arr(b), c, "claude-3") :
        r \in {"assistant", "user"},
        b \in SeqsUpTo(CompatBlocks, 1),
        c \in {StrContent} \cup {Arr(d) : d \in SeqsUpTo(CompatBlocks, 1)}}

\* what precedes it
CompatPrefixes ==
    {<<>>, <<NullMessage>>,
     <<Message("system", NoArray, StrContent, NoField)>>,
     <<Message("assistant", NoArray, Arr(<<TextBlock>>), "claude-3")>>}

InitCompat ==
    /\ contents \in {p \o <<m>> : p \in CompatPrefixes, m \in CompatMessages}
    /\ sessionId = ""
    /\ cache = NoFn
    /\ isClaudeModel \in BOOLEAN
    /\ keepThinking = FALSE
    /\ called = "none"
    /\ out = Returned(<<>>)
    /\ NoPass
    /\ NoOthers

CallFixDcpSyntheticMessages ==
    /\ called = "none"
    /\ called' = "fixDcpSyntheticMessages"
    /\ out' = Returned(fixDcpSyntheticMessages(contents))
    /\ UNCHANGED <<args, pass, others>>

\* options.isClaudeThinkingModel is the request's model family
CallApplyCompatibilityFixes ==
    /\ called = "none"
    /\ called' = "applyCompatibilityFixes"
    /\ out' = Returned(applyCompatibilityFixes(contents, isClaudeModel))
    /\ UNCHANGED <<args, pass, others>>

NextCompat == CallFixDcpSyntheticMessages \/ CallApplyCompatibilityFixes

SpecCompat == InitCompat /\ [][NextCompat]_vars

(***************************************************************************)
(* transformAntigravityResponse: the error branch and the retry headers.   *)
(* Numbers of seconds are counted in units of 0.0001 s.                    *)
(***************************************************************************)
\* a header that is not set, and one that holds the decimal text of n
NoHeader == [set |-> FALSE, value |-> 0]

Header(n) == [set |-> TRUE, value |-> n]

RetryInfoType == "type.googleapis.com/google.rpc.RetryInfo"

ErrorInfoType == "type.googleapis.com/google.rpc.ErrorInfo"

\* a retryDelay: its text, whether /^([\d.]+)s$/ matches it, and what
\* parseFloat makes of the match (NaN, or a number of units)
NoDelay == [k |-> "undefined", text |-> "", matches |-> FALSE, nan |-> FALSE, units |-> 0]

Delay(text, matches, nan, units) ==
    [k |-> "string", text |-> text, matches |-> matches, nan |-> nan, units |-> units]

\* Math.ceil(retrySeconds)
CeilSeconds(units) == (units + 9999) \div 10000

\* Math.ceil(retrySeconds * 1000)
CeilMillis(units) == (units + 9) \div 10

\* one entry of error.details
Detail(type, retryDelay) == [type |-> type, retryDelay |-> retryDelay]

\* error.details: missing, an array of entries, or an object that is no array
NoDetails == [k |-> "undefined", items |-> <<>>]

DetailsArray(items) == [k |-> "array", items |-> items]

DetailsObject == [k |-> "object", items |-> <<>>]

\* the `error` member of the body: missing, null, a string, or an object
ErrorValue(k, details) == [k |-> k, details |-> details]

\* the body text: what JSON.parse makes of it ("text" when it throws)
Body(k, error) == [k |-> k, error |-> error]

\* a Response: status, content-type header, body text, retry headers
Response(status, contentType, text, retryAfter, retryAfterMs) ==
    [status |-> status, contentType |-> contentType, text |-> text,
     retryAfter |-> retryAfter, retryAfterMs |-> retryAfterMs]

\* response.ok
Ok(response) == response.status \in 200..299

\* contentType.includes("application/json")
isJsonResponse(response) ==
    response.contentType \in {"application/json", "application/json; charset=UTF-8"}

\* contentType.includes("text/event-stream")
isEventStreamResponse(response) == response.contentType = "text/event-stream"

\* JSON.parse(text), or { error: { message: text } } when it throws
ErrorBody(text) ==
    IF text.k = "text" THEN Body("object", ErrorValue("object", NoDetails)) ELSE text

\* errorBody?.error
ErrorOf(errorBody) ==
    IF errorBody.k = "object" THEN errorBody.error ELSE ErrorValue("undefined", NoDetails)

\* errorBody?.error?.details
DetailsOf(errorBody) ==
    IF ErrorOf(errorBody).k \in {"object"} THEN ErrorOf(errorBody).details ELSE NoDetails

\* details.find(detail => detail['@type'] === RetryInfo): the index, 0 when none
FindRetryInfo(items) ==
    IF \E i \in 1..Len(items) : items[i].type = RetryInfoType
    THEN CHOOSE i \in 1..Len(items) :
             /\ items[i].type = RetryInfoType
             /\ \A j \in 1..(i - 1) : items[j].type # RetryInfoType
    ELSE 0

\* what the function hands back: status, the two retry headers, and which
\* body ("original": the response itself; "debug info": the error body with
\* the debug text appended; "transformed": the body of the later stages)
Answer(status, retryAfter, retryAfterMs, body) ==
    [status |-> status, retryAfter |-> retryAfter, retryAfterMs |-> retryAfterMs,
     body |-> body]

\* the retry headers after the RetryInfo block
RetryHeaders(response, errorBody) ==
    LET details == DetailsOf(errorBody)
        found == IF details.k = "array" THEN FindRetryInfo(details.items) ELSE 0
        delay == IF found = 0 THEN NoDelay ELSE details.items[found].retryDelay
    IN  IF /\ delay.k = "string" /\ delay.text # ""
           /\ delay.matches /\ ~delay.nan /\ delay.units > 0
        THEN <<Header(CeilSeconds(delay.units)), Header(CeilMillis(delay.units))>>
        ELSE <<response.retryAfter, response.retryAfterMs>>

transformAntigravityResponse(response) ==
    IF ~isJsonResponse(response) /\ ~isEventStreamResponse(response)
    THEN Answer(response.status, response.retryAfter, response.retryAfterMs, "original")
    ELSE IF ~Ok(response)
    THEN LET errorBody == ErrorBody(response.text)
             error == ErrorOf(errorBody)
         IN  IF error.k = "string"
             \* a member of a primitive cannot be assigned: TypeError, caught
             THEN Answer(response.status, response.retryAfter, response.retryAfterMs,
                         "original")
             ELSE IF error.k = "object"
             THEN Answer(response.status, response.retryAfter, response.retryAfterMs,
                         "debug info")
             ELSE LET headers == RetryHeaders(response, errorBody)
                  IN  Answer(response.status, headers[1], headers[2], "transformed")
    ELSE Answer(response.status, response.retryAfter, response.retryAfterMs, "transformed")

\* the retry delays of the model
RetryDelays ==
    {NoDelay, Delay("", FALSE, FALSE, 0), Delay("soon", FALSE, FALSE, 0),
     Delay(".s", TRUE, TRUE, 0), Delay("0s", TRUE, FALSE, 0),
     Delay("0.0005s", TRUE, FALSE, 5), Delay("1s", TRUE, FALSE, 10000),
     Delay("1.5s", TRUE, FALSE, 15000), Delay("30s", TRUE, FALSE, 300000)}

\* the entries of error.details
Details ==
    {Detail(RetryInfoType, d) : d \in RetryDelays} \cup {Detail(ErrorInfoType, NoDelay)}

\* the bodies
Bodies ==
    {Body("text", ErrorValue("undefined", NoDetails)),
     Body("null", ErrorValue("undefined", NoDetails))}
    \cup {Body("object", ErrorValue(k, NoDetails)) : k \in {"undefined", "null", "string"}}
    \cup {Body("object", ErrorValue("object", d)) :
            d \in {NoDetails, DetailsObject}
                  \cup {DetailsArray(<<>>)}
                  \cup {DetailsArray(<<a>>) : a \in Details}
                  \cup {DetailsArray(<<a, b>>) : a \in Details, b \in Details}}

InitResponse ==
    /\ contents = <<>>
    /\ sessionId = ""
    /\ cache = NoFn
    /\ isClaudeModel = FALSE
    /\ keepThinking = FALSE
    /\ called = "none"
    /\ out = Returned(<<>>)
    /\ NoPass
    /\ walk = NoWalk
    /\ toolSchema = NoSchema
    /\ \E status \in {200, 429, 503},
          contentType \in {"application/json; charset=UTF-8", "text/event-stream", "text/html"},
          text \in Bodies,
          sent \in {NoHeader, Header(7)} :
           upstream = Response(status, contentType, text, sent, NoHeader)

CallTransformAntigravityResponse ==
    /\ called = "none"
    /\ called' = "transformAntigravityResponse"
    /\ out' = Returned(transformAntigravityResponse(upstream))
    /\ UNCHANGED <<args, pass, others>>

NextResponse == CallTransformAntigravityResponse

SpecResponse == InitResponse /\ [][NextResponse]_vars

(***************************************************************************)
(* cleanJSONSchemaForAntigravity.  A JSON value is a tagged record: a      *)
(* string is the sequence of the pieces of its text (a description grows   *)
(* by one piece per hint), an array holds its items, an object holds the   *)
(* function from its own keys to their values.                             *)
(***************************************************************************)
JValue(k, s, a, f) == [k |-> k, s |-> s, a |-> a, f |-> f]

JString(pieces) == JValue("string", pieces, <<>>, <<>>)

JFalse == JValue("false", <<>>, <<>>, <<>>)

JArray(items) == JValue("array", <<>>, items, <<>>)

JObject(members) == JValue("object", <<>>, <<>>, members)

\* the string whose text is one word
Word(w) == JString(<<w>>)

\* !!v
JTruthy(v) == v.k \in {"array", "object"} \/ (v.k = "string" /\ v.s # <<>>)

\* schema[key] !== undefined
HasKey(v, key) == v.k = "object" /\ key \in DOMAIN v.f

\* { ...members, [key]: value }
WithKey(members, key, value) ==
    [x \in DOMAIN members \cup {key} |-> IF x = key THEN value ELSE members[x]]

\* the members without the keys
WithoutKeys(members, keys) == [x \in DOMAIN members \ keys |-> members[x]]

\* { ...members, ...more }
Spread(members, more) ==
    [x \in DOMAIN members \cup DOMAIN more |-> IF x \in DOMAIN more THEN more[x] ELSE members[x]]

\* the members of schema[key] when it is an object, {} otherwise
MembersAt(v, key) ==
    IF HasKey(v, key) /\ v.f[key].k = "object" THEN v.f[key].f ELSE <<>>

\* description.includes("nullable"), piece by piece over the texts of the model
MentionsNullable(piece) == piece \in {"nullable", "Not nullable."}

UNSUPPORTED_CONSTRAINTS ==
    <<"minLength", "maxLength", "exclusiveMinimum", "exclusiveMaximum",
      "pattern", "minItems", "maxItems", "format", "default", "examples">>

UNSUPPORTED_KEYWORDS ==
    {UNSUPPORTED_CONSTRAINTS[i] : i \in 1..Len(UNSUPPORTED_CONSTRAINTS)}
    \cup {"$schema", "$defs", "definitions", "const", "$ref", "additionalProperties",
          "propertyNames", "title", "$id", "$comment"}

appendDescriptionHint(schema, hint) ==
    IF schema.k # "object" THEN schema
    ELSE LET existing == IF HasKey(schema, "description") /\ schema.f["description"].k = "string"
                         THEN schema.f["description"].s ELSE <<>>
         IN  JObject(WithKey(schema.f, "description", JString(existing \o <<hint>>)))

RECURSIVE convertRefsToHints(_)
convertRefsToHints(schema) ==
    IF schema.k = "array"
    THEN JArray([i \in 1..Len(schema.a) |-> convertRefsToHints(schema.a[i])])
    ELSE IF schema.k # "object" THEN schema
    ELSE IF HasKey(schema, "$ref") /\ schema.f["$ref"].k = "string"
    THEN LET existingDesc == IF HasKey(schema, "description") /\ schema.f["description"].k = "string"
                             THEN schema.f["description"].s ELSE <<>>
         IN  JObject("type" :> Word("object")
                     @@ "description" :> JString(existingDesc \o <<"See: ref">>))
    ELSE JObject([key \in DOMAIN schema.f |-> convertRefsToHints(schema.f[key])])

\* `!schema.enum` is read as: no truthy enum member
RECURSIVE convertConstToEnum(_)
convertConstToEnum(schema) ==
    IF schema.k = "array"
    THEN JArray([i \in 1..Len(schema.a) |-> convertConstToEnum(schema.a[i])])
    ELSE IF schema.k # "object" THEN schema
    ELSE IF HasKey(schema, "const") /\ ~(HasKey(schema, "enum") /\ JTruthy(schema.f["enum"]))
    THEN JObject([key \in (DOMAIN schema.f \ {"const"}) \cup {"enum"} |->
                    IF key = "enum" THEN JArray(<<schema.f["const"]>>)
                    ELSE convertConstToEnum(schema.f[key])])
    ELSE JObject([key \in DOMAIN schema.f |-> convertConstToEnum(schema.f[key])])

RECURSIVE addEnumHints(_)
addEnumHints(schema) ==
    IF schema.k = "array"
    THEN JArray([i \in 1..Len(schema.a) |-> addEnumHints(schema.a[i])])
    ELSE IF schema.k # "object" THEN schema
    ELSE LET result == IF /\ HasKey(schema, "enum") /\ schema.f["enum"].k = "array"
                          /\ Len(schema.f["enum"].a) > 1 /\ Len(schema.f["enum"].a) <= 10
                       THEN appendDescriptionHint(schema, "Allowed: values")
                       ELSE schema
         IN  JObject([key \in DOMAIN result.f |->
                        IF key # "enum" THEN addEnumHints(result.f[key]) ELSE result.f[key]])

RECURSIVE addAdditionalPropertiesHints(_)
addAdditionalPropertiesHints(schema) ==
    IF schema.k = "array"
    THEN JArray([i \in 1..Len(schema.a) |-> addAdditionalPropertiesHints(schema.a[i])])
    ELSE IF schema.k # "object" THEN schema
    ELSE LET result == IF HasKey(schema, "additionalProperties")
                          /\ schema.f["additionalProperties"] = JFalse
                       THEN appendDescriptionHint(schema, "No extra properties allowed")
                       ELSE schema
         IN  JObject([key \in DOMAIN result.f |->
                        IF key # "additionalProperties"
                        THEN addAdditionalPropertiesHints(result.f[key]) ELSE result.f[key]])

\* the loop over UNSUPPORTED_CONSTRAINTS, after its first n rounds; the hint
\* `${constraint}: ${value}` is written as the constraint's name
RECURSIVE ConstraintsMoved(_, _)
ConstraintsMoved(schema, n) ==
    IF n = 0 THEN schema
    ELSE LET result == ConstraintsMoved(schema, n - 1)
             constraint == UNSUPPORTED_CONSTRAINTS[n]
         IN  IF HasKey(result, constraint) /\ result.f[constraint].k \notin {"array", "object", "null"}
             THEN appendDescriptionHint(result, constraint)
             ELSE result

RECURSIVE moveConstraintsToDescription(_)
moveConstraintsToDescription(schema) ==
    IF schema.k = "array"
    THEN JArray([i \in 1..Len(schema.a) |-> moveConstraintsToDescription(schema.a[i])])
    ELSE IF schema.k # "object" THEN schema
    ELSE LET result == ConstraintsMoved(schema, Len(UNSUPPORTED_CONSTRAINTS))
         IN  JObject([key \in DOMAIN result.f |-> moveConstraintsToDescription(result.f[key])])

\* Array.from(new Set(list))
RECURSIVE Unique(_)
Unique(list) ==
    IF list = <<>> THEN <<>>
    ELSE LET front == Unique(SubSeq(list, 1, Len(list) - 1))
             last == list[Len(list)]
         IN  IF \E i \in 1..Len(front) : front[i] = last THEN front ELSE Append(front, last)

\* `merged` after the first n items of allOf (items that are no objects are skipped)
RECURSIVE MergedOf(_, _)
MergedOf(items, n) ==
    IF n = 0 THEN <<>>
    ELSE LET merged == MergedOf(items, n - 1)
             item == items[n]
         IN  IF item.k # "object" THEN merged
             ELSE LET withProperties ==
                          IF HasKey(item, "properties") /\ item.f["properties"].k = "object"
                          THEN WithKey(merged, "properties",
                                       JObject(Spread(MembersAt(JObject(merged), "properties"),
                                                      item.f["properties"].f)))
                          ELSE merged
                      copied == {key \in DOMAIN item.f \ {"properties", "required"} :
                                    key \notin DOMAIN withProperties}
                  IN  [x \in DOMAIN withProperties \cup copied |->
                         IF x \in copied THEN item.f[x] ELSE withProperties[x]]

\* `mergedRequired` after the first n items of allOf
RECURSIVE MergedRequired(_, _)
MergedRequired(items, n) ==
    IF n = 0 THEN <<>>
    ELSE LET item == items[n]
         IN  IF HasKey(item, "required") /\ item.f["required"].k = "array"
             THEN Unique(MergedRequired(items, n - 1) \o item.f["required"].a)
             ELSE MergedRequired(items, n - 1)

RECURSIVE mergeAllOf(_)
mergeAllOf(schema) ==
    IF schema.k = "array"
    THEN JArray([i \in 1..Len(schema.a) |-> mergeAllOf(schema.a[i])])
    ELSE IF schema.k # "object" THEN schema
    ELSE LET result ==
                 IF HasKey(schema, "allOf") /\ schema.f["allOf"].k = "array"
                 THEN LET items == schema.f["allOf"].a
                          merged == MergedOf(items, Len(items))
                          mergedRequired == MergedRequired(items, Len(items))
                          withProperties ==
                              IF "properties" \in DOMAIN merged
                              THEN WithKey(schema.f, "properties",
                                           JObject(Spread(MembersAt(schema, "properties"),
                                                          merged["properties"].f)))
                              ELSE schema.f
                          existingRequired ==
                              IF "required" \in DOMAIN withProperties
                                 /\ withProperties["required"].k = "array"
                              THEN withProperties["required"].a ELSE <<>>
                          withRequired ==
                              IF mergedRequired # <<>>
                              THEN WithKey(withProperties, "required",
                                           JArray(Unique(existingRequired \o mergedRequired)))
                              ELSE withProperties
                          copied == {key \in DOMAIN merged \ {"properties", "required"} :
                                        key \notin DOMAIN withRequired}
                      IN  WithoutKeys([x \in DOMAIN withRequired \cup copied |->
                                         IF x \in copied THEN merged[x] ELSE withRequired[x]],
                                      {"allOf"})
                 ELSE schema.f
         IN  JObject([key \in DOMAIN result |-> mergeAllOf(result[key])])

\* the schemas of the model hold no anyOf and no oneOf array: the loop over
\* the union keys finds nothing to flatten
RECURSIVE flattenAnyOfOneOf(_)
flattenAnyOfOneOf(schema) ==
    IF schema.k = "array"
    THEN JArray([i \in 1..Len(schema.a) |-> flattenAnyOfOneOf(schema.a[i])])
    ELSE IF schema.k # "object" THEN schema
    ELSE JObject([key \in DOMAIN schema.f |-> flattenAnyOfOneOf(schema.f[key])])

\* the type array flattened to one type, with its hints
TypeFlattened(schema) ==
    IF HasKey(schema, "type") /\ schema.f["type"].k = "array"
    THEN LET types == schema.f["type"].a
             hasNull == \E i \in 1..Len(types) : types[i] = Word("null")
             nonNullTypes == SelectSeq(types, LAMBDA t : t # Word("null") /\ JTruthy(t))
             firstType == IF nonNullTypes # <<>> THEN nonNullTypes[1] ELSE Word("string")
             typed == JObject(WithKey(schema.f, "type", firstType))
             hinted == IF Len(nonNullTypes) > 1
                       THEN appendDescriptionHint(typed, "Accepts: types") ELSE typed
         IN  IF hasNull THEN appendDescriptionHint(hinted, "nullable") ELSE hinted
    ELSE schema

\* processed.description.includes("nullable")
TrackedNullable(processed) ==
    /\ HasKey(processed, "description")
    /\ processed.f["description"].k = "string"
    /\ \E i \in 1..Len(processed.f["description"].s) :
           MentionsNullable(processed.f["description"].s[i])

\* atRoot: the call of cleanJSONSchemaForAntigravity, which passes no
\* nullableFields; the entry "" of the map is written by that call alone
RECURSIVE flattenTypeArrays(_, _)
flattenTypeArrays(schema, atRoot) ==
    IF schema.k = "array"
    THEN JArray([i \in 1..Len(schema.a) |-> flattenTypeArrays(schema.a[i], FALSE)])
    ELSE IF schema.k # "object" THEN schema
    ELSE LET typed == TypeFlattened(schema)
             hasProperties == HasKey(typed, "properties") /\ typed.f["properties"].k = "object"
             newProps == [propKey \in DOMAIN MembersAt(typed, "properties") |->
                            flattenTypeArrays(typed.f["properties"].f[propKey], FALSE)]
             withProps == IF hasProperties
                          THEN WithKey(typed.f, "properties", JObject(newProps)) ELSE typed.f
             nullableAtRoot == {propKey \in DOMAIN newProps : TrackedNullable(newProps[propKey])}
             result ==
                 IF /\ atRoot /\ "required" \in DOMAIN withProps
                    /\ withProps["required"].k = "array" /\ nullableAtRoot # {}
                 THEN LET kept == SelectSeq(withProps["required"].a,
                                            LAMBDA r : ~\E p \in nullableAtRoot : r = Word(p))
                      IN  IF kept = <<>> THEN WithoutKeys(withProps, {"required"})
                          ELSE WithKey(withProps, "required", JArray(kept))
                 ELSE withProps
         IN  JObject([key \in DOMAIN result |->
                        IF key # "properties" THEN flattenTypeArrays(result[key], FALSE)
                        ELSE result[key]])

RECURSIVE removeUnsupportedKeywords(_)
removeUnsupportedKeywords(schema) ==
    IF schema.k = "array"
    THEN JArray([i \in 1..Len(schema.a) |-> removeUnsupportedKeywords(schema.a[i])])
    ELSE IF schema.k # "object" THEN schema
    ELSE JObject([key \in DOMAIN schema.f \ UNSUPPORTED_KEYWORDS |->
                    removeUnsupportedKeywords(schema.f[key])])

RECURSIVE cleanupRequiredFields(_)
cleanupRequiredFields(schema) ==
    IF schema.k = "array"
    THEN JArray([i \in 1..Len(schema.a) |-> cleanupRequiredFields(schema.a[i])])
    ELSE IF schema.k # "object" THEN schema
    ELSE LET result ==
                 IF /\ HasKey(schema, "required") /\ schema.f["required"].k = "array"
                    /\ HasKey(schema, "properties") /\ schema.f["properties"].k = "object"
                 THEN LET validRequired ==
                              SelectSeq(schema.f["required"].a,
                                        LAMBDA req : \E p \in DOMAIN schema.f["properties"].f :
                                                         req = Word(p))
                      IN  IF validRequired = <<>> THEN WithoutKeys(schema.f, {"required"})
                          ELSE WithKey(schema.f, "required", JArray(validRequired))
                 ELSE schema.f
         IN  JObject([key \in DOMAIN result |-> cleanupRequiredFields(result[key])])

RECURSIVE addEmptySchemaPlaceholder(_)
addEmptySchemaPlaceholder(schema) ==
    IF schema.k = "array"
    THEN JArray([i \in 1..Len(schema.a) |-> addEmptySchemaPlaceholder(schema.a[i])])
    ELSE IF schema.k # "object" THEN schema
    ELSE LET hasProperties == DOMAIN MembersAt(schema, "properties") # {}
             result ==
                 IF HasKey(schema, "type") /\ schema.f["type"] = Word("object") /\ ~hasProperties
                 THEN WithKey(WithKey(schema.f, "properties",
                                      JObject("reason" :> JObject(
                                          "type" :> Word("string")
                                          @@ "description" :> Word("Brief explanation of why you are calling this tool")))),
                              "required", JArray(<<Word("reason")>>))
                 ELSE schema.f
         IN  JObject([key \in DOMAIN result |-> addEmptySchemaPlaceholder(result[key])])

cleanJSONSchemaForAntigravity(s) ==
    IF s.k \notin {"array", "object"} THEN s
    ELSE addEmptySchemaPlaceholder(
           cleanupRequiredFields(
             removeUnsupportedKeywords(
               flattenTypeArrays(
                 flattenAnyOfOneOf(
                   mergeAllOf(
                     moveConstraintsToDescription(
                       addAdditionalPropertiesHints(
                         addEnumHints(
                           convertConstToEnum(
                             convertRefsToHints(s))))))), TRUE))))

\* the names a tool may give its parameters
ParameterNames == {"query", "title", "format", "const"}

\* { type: "string" }
StringParameter == JObject("type" :> Word("string"))

\* { type: ["string", "null"] }
NullableParameter == JObject("type" :> JArray(<<Word("string"), Word("null")>>))

\* { type: "string", description: "Not nullable.", format: "date" }
DescribedParameter ==
    JObject("type" :> Word("string") @@ "description" :> Word("Not nullable.")
            @@ "format" :> Word("date"))

ParameterSchemas == {StringParameter, NullableParameter, DescribedParameter}

\* the `properties` maps: every choice of names, every choice of their schemas
PropertyMaps ==
    UNION {[names -> ParameterSchemas] : names \in SUBSET ParameterNames}

\* the names in the order a `required` list gives them
NameOrder == <<"query", "title", "format", "const">>

\* the `required` lists: none, or any selection of the names
RequiredLists ==
    {SelectSeq([i \in 1..Len(NameOrder) |-> Word(NameOrder[i])],
               LAMBDA w : \E n \in names : w = Word(n)) : names \in SUBSET ParameterNames}

\* what an allOf item adds: a parameter of its own, required
AllOfItem ==
    JObject("properties" :> JObject("extra" :> StringParameter)
            @@ "required" :> JArray(<<Word("extra")>>))

\* the members a tool schema has besides type, properties and required
SchemaExtras ==
    {<<>>,
     "$schema" :> Word("http://json-schema.org/draft-07/schema#")
         @@ "additionalProperties" :> JFalse,
     "allOf" :> JArray(<<AllOfItem>>)}

ToolSchemas ==
    {JObject(("type" :> Word("object") @@ "properties" :> JObject(p) @@ extras)
             @@ (IF r = <<>> THEN <<>> ELSE "required" :> JArray(r))) :
        p \in PropertyMaps, r \in RequiredLists, extras \in SchemaExtras}

InitSchema ==
    /\ contents = <<>>
    /\ sessionId = ""
    /\ cache = NoFn
    /\ isClaudeModel = FALSE
    /\ keepThinking = FALSE
    /\ called = "none"
    /\ out = Returned(<<>>)
    /\ NoPass
    /\ walk = NoWalk
    /\ upstream = NoResponse
    /\ toolSchema \in ToolSchemas

CallCleanJSONSchemaForAntigravity ==
    /\ called = "none"
    /\ called' = "cleanJSONSchemaForAntigravity"
    /\ out' = Returned(cleanJSONSchemaForAntigravity(toolSchema))
    /\ UNCHANGED <<args, pass, others>>

NextSchema == CallCleanJSONSchemaForAntigravity

SpecSchema == InitSchema /\ [][NextSchema]_vars

(***************************************************************************)
(* Vocabulary of the properties.                                           *)
(***************************************************************************)
\* the trust-based path: anything but the unconditional strip
TrustPath == ~(isClaudeModel /\ ~keepThinking)

\* one of the two exported filters has returned
Filtered == called \in {"filterUnsignedThinkingBlocks", "filterMessagesThinkingBlocks"} /\ ~out.threw

\* the blocks of a turn, wherever they live
BlocksOf(turn) ==
    IF turn.kind # "object" THEN <<>>
    ELSE (IF turn.parts.k = "array" THEN turn.parts.a ELSE <<>>)
         \o (IF turn.content.k = "array" THEN turn.content.a ELSE <<>>)

\* a block that is not a tool block and has a thinking shape or a signature field
ThinkingOrSigned(b) ==
    b.kind = "object" /\ ~isToolBlock(b) /\ (isThinkingPart(b) \/ hasSignatureField(b))

\* a block the classifier takes for a thinking block (tool blocks take precedence)
ThinkingBlock(b) == b.kind = "object" /\ ~isToolBlock(b) /\ isThinkingPart(b)

\* the tool blocks of a block list, in order
ToolBlocksOf(blocks) ==
    LET tool(b) == b.kind = "object" /\ isToolBlock(b) IN SelectSeq(blocks, tool)

\* the signature field a block's style uses
OwnSignature(b) == IF b.thought = TRUE THEN b.thoughtSignature ELSE b.signature

\* the block with that field removed
Unsigned(b) ==
    IF b.thought = TRUE THEN [b EXCEPT !.thoughtSignature = Undef] ELSE [b EXCEPT !.signature = Undef]

\* what the cache holds for (session, the block's exact text); undefined when it holds nothing
CachedFor(b) ==
    IF HaveCache(sessionId, cache) /\ getThinkingText(b) # ""
    THEN getCachedSignatureFn(cache, sessionId, getThinkingText(b))
    ELSE Undef

\* the block's own signature is the cached one for its text
Trusted(b) == IsString(OwnSignature(b)) /\ OwnSignature(b).n > 0 /\ OwnSignature(b) = CachedFor(b)

\* a well-formed signature that is not the cached one for the block's text
ForeignSigned(b) ==
    /\ IsString(OwnSignature(b)) /\ OwnSignature(b).n >= MIN_SIGNATURE_LENGTH
    /\ OwnSignature(b) # CachedFor(b)

\* the cache can restore a signature for the block's text
Restorable(b) == IsString(CachedFor(b)) /\ CachedFor(b).n >= MIN_SIGNATURE_LENGTH

\* the block handed to filterContentArray
TheBlock == contents[1].parts.a[1]

\* filterContentArray has run, on the trust-based path, on a thinking block
TrustFiltered == called = "filterContentArray" /\ TrustPath /\ ThinkingBlock(TheBlock)

(***************************************************************************)
(* C1.  Strip completeness: under the Claude policy with the keep-thinking *)
(* override off, no turn of the output of filterUnsignedThinkingBlocks or  *)
(* filterMessagesThinkingBlocks, whether its blocks are under `parts` or   *)
(* under `content`, holds a non-tool block that is thinking-shaped or      *)
(* carries a signature field.                                              *)
(* The code falsifies it: filterMessagesThinkingBlocks never looks at      *)
(* `parts`.                                                                *)
(***************************************************************************)
C1_StripCompleteness ==
    (Filtered /\ isClaudeModel /\ ~keepThinking) =>
        \A i \in 1..Len(out.v) :
            \A j \in 1..Len(BlocksOf(out.v[i])) : ~ThinkingOrSigned(BlocksOf(out.v[i])[j])

(***************************************************************************)
(* C2.  Tool blocks are never filtered: whatever the model family, session *)
(* and cache, the tool blocks of every turn come out unchanged and in      *)
(* their original order, also when a tool block has a thinking shape or a  *)
(* signature and is the last block of a model/assistant turn.              *)
(* The code falsifies it: removeTrailingThinkingBlocks pops a trailing     *)
(* block by isThinkingPart alone, without asking isToolBlock.              *)
(***************************************************************************)
C2_ToolBlocksKept ==
    Filtered =>
        /\ Len(out.v) = Len(contents)
        /\ \A i \in 1..Len(contents) :
               ToolBlocksOf(BlocksOf(out.v[i])) = ToolBlocksOf(BlocksOf(contents[i]))

C5_ForeignDropped ==
    (TrustFiltered /\ ForeignSigned(TheBlock)) => out.v = <<>>

(***************************************************************************)
(* C6.  Signature restoration: on the trust-based path, with a session id  *)
(* and a cache lookup, an unsigned thinking block whose non-empty text has *)
(* a cached signature of at least 50 characters is kept, sanitized, and    *)
(* carries exactly that signature (in thoughtSignature for a Gemini-style  *)
(* block, in signature otherwise); an unsigned block whose text has no     *)
(* such entry is dropped.                                                  *)
(***************************************************************************)
C6_SignatureRestoration ==
    (TrustFiltered /\ HaveCache(sessionId, cache) /\ OwnSignature(TheBlock) = Undef) =>
        IF Restorable(TheBlock)
        THEN /\ Len(out.v) = 1
             /\ ThinkingBlock(out.v[1])
             /\ out.v[1].thought = TheBlock.thought
             /\ OwnSignature(out.v[1]) = CachedFor(TheBlock)
             /\ (IF TheBlock.thought = TRUE THEN out.v[1].signature ELSE out.v[1].thoughtSignature) = Undef
             /\ ~out.v[1].cache_control /\ ~out.v[1].providerOptions
        ELSE out.v = <<>>

\* an unsigned Gemini-style thought that came out with the cached signature
C6_Witness ==
    /\ TrustFiltered /\ HaveCache(sessionId, cache) /\ OwnSignature(TheBlock) = Undef
    /\ Restorable(TheBlock) /\ TheBlock.thought = TRUE /\ TheBlock.cache_control
    /\ Len(out.v) = 1 /\ out.v[1].thoughtSignature = SigA

(***************************************************************************)
(* C7.  Non-trailing invariant: on the trust-based path no producer turn   *)
(* (role model or assistant, blocks under `parts` or `content`) of the     *)
(* output of filterUnsignedThinkingBlocks / filterMessagesThinkingBlocks   *)
(* ends with a thinking block that is not trusted, i.e. whose signature is *)
(* not the cached value for (session, its text).                           *)
(* The code falsifies it: a trusted block can lose or change its text in   *)
(* sanitizeThinkingPart, and the trailing trim runs only for role "model"  *)
(* under `parts`, role "assistant" under `content`, and never for Claude.  *)
(***************************************************************************)
C7_NonTrailing ==
    (Filtered /\ TrustPath) =>
        \A i \in 1..Len(out.v) :
            LET blocks == BlocksOf(out.v[i])
            IN  (out.v[i].kind = "object" /\ out.v[i].role \in {"model", "assistant"} /\ Len(blocks) > 0)
                    => ~(ThinkingBlock(blocks[Len(blocks)]) /\ ~Trusted(blocks[Len(blocks)]))

\* the repair pass has returned
Repaired == called = "fixToolPairing"

\* the name of the k-th result that lacked an id
ArrivalName(k) == Unidentified(contents)[k].b.name

\* the positions, among the first n recoveries, of the results that name the tool
ArrivalsOf(name, n) == {k \in 1..n : ArrivalName(k) = name}

\* the calls of a tool the pass found pending, in the order they were issued
IssuedFor(name) == MapGet(BuildPendingCalls(contents), name)

\* the ids handed out before the k-th recovery
HandedBefore(k) == {recovered[q].id : q \in 1..(k - 1)}

\* no result before the k-th was recovered at the fallback level
NoFallbackBefore(k) == \A q \in 1..(k - 1) : recovered[q].recoveryLevel # "fallback"

(***************************************************************************)
(* C3.  Pairing fixed point: validation of the repaired conversation       *)
(* reports no orphaned tool call and no orphaned tool result.              *)
(* The repair falsifies it: a result that finds nothing to correlate with  *)
(* gets a placeholder id, which no call carries, and a result whose id     *)
(* matches no call is left as it is.                                       *)
(***************************************************************************)
C3_PairingFixedPoint ==
    Repaired =>
        /\ validateToolPairing(out.v).orphanedToolCalls = {}
        /\ validateToolPairing(out.v).orphanedToolResponses = {}

\* sanitizeThinkingForClaude has run with thinking enabled
Ordered == called = "sanitizeThinkingForClaude(thinking enabled)"

\* the blocks of a list that are not thinking blocks, in order
NonThinking(blocks) == LET other(b) == ~IsThinkingBlock(b) IN SelectSeq(blocks, other)

\* the thinking blocks of a list, in order
ThinkingOf(blocks) == SelectSeq(blocks, IsThinkingBlock)

\* the texts of the thinking blocks of a list, as a bag
ThinkingTexts(blocks) ==
    LET t == ThinkingOf(blocks)
    IN  [x \in {getThinkingText(t[i]) : i \in 1..Len(t)} |->
            Cardinality({i \in 1..Len(t) : getThinkingText(t[i]) = x})]

(***************************************************************************)
(* C8.  Ordering invariant for the Claude family: in the output of         *)
(* sanitizeThinkingForClaude with thinking enabled every model turn that   *)
(* holds a tool call holds a thinking block before its first tool call;    *)
(* when the input turn had no thinking block, exactly one is injected and  *)
(* it carries the bypass signature; when the input turn had its thinking   *)
(* only after the tool call, the output has the same thinking blocks, moved*)
(* and not duplicated, and the other blocks keep their order.              *)
(***************************************************************************)
C8_ThinkingBeforeToolCall ==
    Ordered =>
        /\ Len(out.v) = Len(contents)
        /\ \A i \in 1..Len(contents) :
               LET before == TurnBlocks(contents[i])
                   after == TurnBlocks(out.v[i])
                   call == FirstToolCall(after)
                   thinking == FirstThinking(after)
               IN  (contents[i].role = "model" /\ FirstToolCall(before) # 0) =>
                       /\ call # 0 /\ thinking # 0 /\ thinking < call
                       /\ NonThinking(after) = NonThinking(before)
                       /\ IF ThinkingOf(before) = <<>>
                          THEN /\ Len(ThinkingOf(after)) = 1
                               /\ after[thinking].thoughtSignature = BYPASS_SIGNATURE
                          ELSE /\ Len(after) = Len(before)
                               /\ ThinkingTexts(after) = ThinkingTexts(before)

\* a turn whose only thinking block came after the tool call: it is now the first block
C8_Witness ==
    /\ Ordered
    /\ Len(contents) = 1 /\ Len(TurnBlocks(contents[1])) = 3
    /\ IsToolCall(TurnBlocks(contents[1])[1])
    /\ ~IsThinkingBlock(TurnBlocks(contents[1])[2])
    /\ IsThinkingBlock(TurnBlocks(contents[1])[3])
    /\ IsThinkingBlock(TurnBlocks(out.v[1])[1])
    /\ getThinkingText(TurnBlocks(out.v[1])[1]) = getThinkingText(TurnBlocks(contents[1])[3])

C10_RecoveryPriority ==
    [][Len(recovered') = Len(recovered) + 1 =>
          LET r == recovered'[Len(recovered')]
              queue == MapGet(pendingCalls, ArrivalName(Len(recovered')))
          IN  /\ queue # <<>> => (r.id = Head(queue) /\ r.recoveryLevel = "name")
              /\ (queue = <<>> /\ orphanedCalls # <<>>)
                     => (r.id = Head(orphanedCalls) /\ r.recoveryLevel = "orphan")
              /\ (r.recoveryLevel = "placeholder" \/ r.id.tag = "placeholder")
                     <=> (NonEmptyQueues(pendingCalls) = <<>> /\ orphanedCalls = <<>>)
              /\ r.recoveryLevel = "placeholder" => r.id.tag = "placeholder"]_vars

\* one pass in which a result was served from the pool, one by name, one with a placeholder
C10_Witness ==
    /\ Len(recovered) = 3
    /\ {recovered[k].recoveryLevel : k \in 1..3} = {"name", "orphan", "placeholder"}

\* recoverToolResponseID has returned
Recovered == called = "recoverToolResponseID"

\* the result's own id is the id of a call that is still pending
ExactMatch == TheResponse.id # NoId /\ IsPending(pendingCalls, TheResponse.id)

\* a call is pending under the result's name
NameMatch == MapGet(pendingCalls, TheResponse.name) # <<>>

AnsweredIds ==
    {ToolResults(contents)[j].b.id : j \in 1..Len(ToolResults(contents))}
    \cup {recovered[k].id : k \in 1..Len(recovered)}

\* the calls of a turn that have no result anywhere, in the order they were issued
OpenCalls(turn) ==
    LET open(b) == IsToolCall(b) /\ b.id # NoId /\ b.id \notin AnsweredIds
    IN  SelectSeq(TurnBlocks(turn), open)

\* a synthesized result: an error result with the fixed payload
IsPlaceholderResult(b) ==
    IsToolResult(b) /\ b.is_error /\ b.payload = TOOL_RESPONSE_UNAVAILABLE

(***************************************************************************)
(* C12.  For every tool call that has no result anywhere in the            *)
(* conversation, repair places a tool result with the call's id, is_error  *)
(* = true and the "tool response unavailable" payload in the consumer turn *)
(* right after the call's turn: the placeholders come first, in the order  *)
(* of the calls, ahead of the blocks the user turn already had; a user     *)
(* turn is created only when none follows; calls that have a result get no *)
(* placeholder.  (The calls of the conversations checked are all in the    *)
(* first turn.)                                                            *)
(***************************************************************************)
C12_PlaceholderInjection ==
    Repaired =>
        LET open == OpenCalls(contents[1])
            existing == IF Len(contents) = 2 THEN TurnBlocks(contents[2]) ELSE <<>>
            placed == IF Len(out.v) >= 2 THEN TurnBlocks(out.v[2]) ELSE <<>>
        IN  /\ out.v[1] = contents[1]
            /\ Len(out.v) = (IF open = <<>> THEN Len(contents) ELSE 2)
            /\ Len(out.v) = 2 => (out.v[2].kind = "object" /\ out.v[2].role = "user")
            /\ Len(placed) = Len(open) + Len(existing)
            /\ \A k \in 1..Len(open) :
                   IsPlaceholderResult(placed[k]) /\ placed[k].id = open[k].id
            /\ \A k \in 1..Len(existing) :
                   /\ ~IsPlaceholderResult(placed[Len(open) + k])
                   /\ [placed[Len(open) + k] EXCEPT !.id = NoId] = [existing[k] EXCEPT !.id = NoId]

\* the first of three calls has its result: the other two get placeholders, in order, ahead of it
C12_Witness ==
    /\ Repaired
    /\ Len(contents) = 2 /\ Len(TurnBlocks(contents[1])) = 3
    /\ TurnBlocks(contents[2]) = <<Result("bash", CallId(1))>>
    /\ TurnBlocks(out.v[2]) = <<UnavailableResult(CallId(2)), UnavailableResult(CallId(3)),
                                 Result("bash", CallId(1))>>

\* closeToolLoopForThinking has returned
Closed == called = "closeToolLoopForThinking"

\* the last turn is a tool-result turn
EndsWithToolResults ==
    /\ contents[Len(contents)].role = "user"
    /\ \E j \in 1..Len(TurnBlocks(contents[Len(contents)])) :
           IsToolResult(TurnBlocks(contents[Len(contents)])[j])

\* the model turn before the last turn issued a call and holds no thinking block
IssuedWithoutThinking ==
    /\ Len(contents) >= 2
    /\ contents[Len(contents) - 1].role = "model"
    /\ FirstToolCall(TurnBlocks(contents[Len(contents) - 1])) # 0
    /\ FirstThinking(TurnBlocks(contents[Len(contents) - 1])) = 0

\* a turn that holds one block, a text, and nothing else
TextTurn(turn, role, text) ==
    /\ turn.kind = "object" /\ turn.role = role
    /\ Len(TurnBlocks(turn)) = 1
    /\ TurnBlocks(turn)[1].text = text
    /\ ~IsToolCall(TurnBlocks(turn)[1]) /\ ~IsToolResult(TurnBlocks(turn)[1])
    /\ ~IsThinkingBlock(TurnBlocks(turn)[1])

(***************************************************************************)
(* C13.  Tool-loop closure: when the last turn is a tool-result turn and   *)
(* the model turn that issued the call has no thinking block,              *)
(* closeToolLoopForThinking returns the input turns, unchanged and in      *)
(* order, followed by exactly two turns: a model turn whose text is        *)
(* TOOL_LOOP_CLOSE_MODEL, then a user turn whose text is                   *)
(* TOOL_LOOP_CLOSE_USER; a conversation whose pairing was valid stays      *)
(* valid.                                                                  *)
(***************************************************************************)
C13_ToolLoopClosure ==
    (Closed /\ EndsWithToolResults /\ IssuedWithoutThinking) =>
        /\ Len(out.v) = Len(contents) + 2
        /\ SubSeq(out.v, 1, Len(contents)) = contents
        /\ TextTurn(out.v[Len(contents) + 1], "model", TOOL_LOOP_CLOSE_MODEL)
        /\ TextTurn(out.v[Len(contents) + 2], "user", TOOL_LOOP_CLOSE_USER)
        /\ validateToolPairing(contents).valid => validateToolPairing(out.v).valid

\* a call with an id, answered by its result, no thinking in the model turn: closed, still valid
C13_Witness ==
    /\ Closed /\ EndsWithToolResults /\ IssuedWithoutThinking
    /\ Len(contents) = 3
    /\ validateToolPairing(contents).valid
    /\ ToolCalls(contents) # <<>> /\ ToolCalls(contents)[1].b.id = CallId(1)
    /\ Len(out.v) = 5
    /\ validateToolPairing(out.v).valid

\* the block's own signature is a string of fewer than 50 characters
ShortSigned(b) == IsString(OwnSignature(b)) /\ OwnSignature(b).n < MIN_SIGNATURE_LENGTH

(***************************************************************************)
(* C14.  A short signature (fewer than 50 characters) is treated as an     *)
(* absent one: for every thinking block, session and cache content,        *)
(* filterContentArray returns for the block with a short signature what it *)
(* returns for the same block with the signature field removed; a short    *)
(* signature never causes a block to be kept.                              *)
(* The code falsifies it: isOurCachedSignature compares the signature with *)
(* the cached value without looking at its length.                         *)
(***************************************************************************)
C14_ShortAsAbsent ==
    (called = "filterContentArray" /\ ThinkingBlock(TheBlock) /\ ShortSigned(TheBlock)) =>
        out.v = filterContentArray(<<Unsigned(TheBlock)>>, sessionId, cache,
                                   isClaudeModel, keepThinking)

\* what other sessions have cached: for text "B" the signature this session holds for "A"
OtherSessionEntries ==
    (<<"session-2", "A">> :> SigF) @@ (<<"session-2", "B">> :> SigA)

\* the caches of the model, alone and together with the entries of another session
IsolationCaches ==
    Caches \cup {[fn |-> TRUE, m |-> c.m @@ OtherSessionEntries] : c \in Caches}

\* the entries a cache holds under a session id
EntriesOf(c, sid) == {k \in DOMAIN c.m : k[1] = sid}

\* two caches agree on every (sid, text) entry
AgreeOn(c1, c2, sid) ==
    /\ EntriesOf(c1, sid) = EntriesOf(c2, sid)
    /\ \A k \in EntriesOf(c1, sid) : c1.m[k] = c2.m[k]

WithoutCache ==
    CASE called = "filterUnsignedThinkingBlocks" ->
             filterUnsignedThinkingBlocks(contents, "", NoFn, isClaudeModel, keepThinking)
      [] called = "filterMessagesThinkingBlocks" ->
             filterMessagesThinkingBlocks(contents, "", NoFn, isClaudeModel, keepThinking)
      [] called = "deepFilterThinkingBlocks(contents)" ->
             deepFilterThinkingBlocks("contents", contents, "", NoFn, isClaudeModel, keepThinking)
      [] called = "deepFilterThinkingBlocks(messages)" ->
             deepFilterThinkingBlocks("messages", contents, "", NoFn, isClaudeModel, keepThinking)

\* the filter that ran reads the messages shape (`content` only)
ReadsMessages ==
    called \in {"filterMessagesThinkingBlocks", "deepFilterThinkingBlocks(messages)"}

\* the block list of a turn that the filter that ran hands to filterContentArray
ListRead(turn) ==
    IF turn.kind # "object" THEN <<>>
    ELSE IF ReadsMessages THEN (IF turn.content.k = "array" THEN turn.content.a ELSE <<>>)
    ELSE TurnBlocks(turn)

Sanitized == called = "sanitizeThinkingPart"

C18_FormatPreserving ==
    Sanitized =>
        /\ TheBlock.thought = TRUE => out.v[1].thought = TRUE
        /\ TheBlock.type \in {"thinking", "redacted_thinking"} => out.v[1].type = TheBlock.type
        /\ TheBlock.type = "reasoning" => out.v[1].type = "reasoning"

\* a block with the minimal field set of its style, its text a plain string, and no
\* cache_control / providerOptions key on it or inside a field
MinimalThinking(b) ==
    /\ ~b.cache_control /\ ~b.providerOptions /\ b.tool = {}
    /\ \A v \in {b.text, b.thinking, b.signature, b.thoughtSignature} : ~IsObject(v)
    /\ IF b.thought = TRUE
       THEN b.type = NoField /\ IsString(b.text) /\ b.thinking = Undef /\ b.signature = Undef
       ELSE IF b.type \in {"thinking", "redacted_thinking"}
       THEN IsString(b.thinking) /\ b.text = Undef /\ b.thoughtSignature = Undef
       ELSE b.type = "reasoning" /\ IsString(b.text) /\ b.thinking = Undef
            /\ b.thoughtSignature = Undef

(***************************************************************************)
(* C19.  Every thinking block that the trust-based filter keeps has only   *)
(* the minimal field set of its style ({thought, text, thoughtSignature},  *)
(* {type, thinking, signature} or {type, text, signature}), with its text  *)
(* unwrapped to a plain string, and no cache_control or providerOptions    *)
(* key at any depth.                                                       *)
(* The code falsifies it: the Gemini branch copies a `text` object that    *)
(* has no inner string as it is, and never looks at `thinking`.            *)
(***************************************************************************)
C19_MinimalFields ==
    (TrustFiltered /\ out.v # <<>>) => MinimalThinking(out.v[1])

\* the non-object elements of a block list, in order
NonObjects(blocks) == SelectSeq(blocks, NotAnObject)

\* a turn that is an object and holds no block list
NoBlockList(turn) == turn.kind = "object" /\ turn.parts.k # "array" /\ turn.content.k # "array"

(***************************************************************************)
(* C20.  The filters are total over garbage input:                         *)
(* filterUnsignedThinkingBlocks and filterMessagesThinkingBlocks never     *)
(* throw, under any model family; a turn that is not an object or has no   *)
(* `parts` / `content` array comes out unchanged, and so do the non-object *)
(* blocks of a turn, null as the last block of a model/assistant turn      *)
(* included.                                                               *)
(* The code falsifies it: removeTrailingThinkingBlocks reads `.type` of    *)
(* the last element without testing that it is an object.                  *)
(***************************************************************************)
C20_TotalOverGarbage ==
    called \in {"filterUnsignedThinkingBlocks", "filterMessagesThinkingBlocks"} =>
        /\ ~out.threw
        /\ Len(out.v) = Len(contents)
        /\ \A i \in 1..Len(contents) :
               /\ (contents[i].kind # "object" \/ NoBlockList(contents[i])) => out.v[i] = contents[i]
               /\ NonObjects(BlocksOf(out.v[i])) = NonObjects(BlocksOf(contents[i]))

RECURSIVE ReachableFrom(_, _)
\* the cells of the graph that can be reached from the cells seen
ReachableFrom(heap, seen) ==
    LET refs(r) == IF heap[r].kind = "array"
                   THEN {heap[r].items[i] : i \in 1..Len(heap[r].items)}
                   ELSE IF heap[r].kind = "object"
                   THEN {heap[r].contents, heap[r].messages, heap[r].extra_body} \ {NoRef}
                   ELSE {}
        next == seen \cup UNION {refs(r) : r \in seen}
    IN  IF next = seen THEN seen ELSE ReachableFrom(heap, next)

\* deepFilterThinkingBlocks has returned the payload
DeepFiltered == called = "deepFilterThinkingBlocks" /\ walk.status = "returned"

\* a non-tool thinking block that the policy in force drops
PolicyDrops(b) ==
    /\ ThinkingBlock(b)
    /\ filterContentArray(<<b>>, sessionId, cache, isClaudeModel, keepThinking) = <<>>

\* the arrays stored under `contents` or `messages` anywhere in the payload
ConversationArrays ==
    {walk.heap[o][key] : o \in {r \in ReachableFrom(walk.heap, {walk.root}) :
                                    walk.heap[r].kind = "object"},
                         key \in {"contents", "messages"}} \ {NoRef}

(***************************************************************************)
(* C21.  Deep filtering: once deepFilterThinkingBlocks has returned, every *)
(* array stored under a key `contents` or `messages` at any depth of the   *)
(* payload is filtered: no turn in it, with its blocks under `parts` or    *)
(* under `content`, holds a non-tool thinking block that the policy in     *)
(* force drops.                                                            *)
(***************************************************************************)
C21_DeepFiltering ==
    DeepFiltered =>
        \A a \in ConversationArrays :
            \A i \in 1..Len(walk.heap[a].items) :
                LET blocks == BlocksOf(walk.heap[walk.heap[a].items[i]])
                IN  \A j \in 1..Len(blocks) : ~PolicyDrops(blocks[j])

\* fixDcpSyntheticMessages has returned
DcpFixed == called = "fixDcpSyntheticMessages"

\* the value of the key is a non-empty array
NonEmptyArray(f) == f.k = "array" /\ Len(f.a) > 0

(***************************************************************************)
(* C22.  After fixDcpSyntheticMessages, every assistant message whose      *)
(* `content` or `parts` is a non-empty array has a thinking or             *)
(* redacted_thinking block as the first block of that array.               *)
(* The code falsifies it: the key is chosen by truthiness, so `parts` is   *)
(* never looked at when `content` is a string or an array.                 *)
(***************************************************************************)
C22_LeadingThinking ==
    DcpFixed =>
        \A i \in 1..Len(out.v) :
            (out.v[i].kind = "object" /\ out.v[i].role = "assistant") =>
                \A key \in {"content", "parts"} :
                    NonEmptyArray(out.v[i][key]) => isThinkingBlock(out.v[i][key].a[1])

\* the message with the synthetic block prepended to the array under key
Prepended(message, key) ==
    [message EXCEPT ![key] = Arr(<<DCP_SYNTHETIC_REDACTED_THINKING>> \o message[key].a)]

\* an assistant message with a non-empty array under key that does not start with thinking
LacksLeadingThinking(message, key) ==
    /\ message.kind = "object" /\ message.role = "assistant"
    /\ NonEmptyArray(message[key])
    /\ ~isThinkingBlock(message[key].a[1])

(***************************************************************************)
(* C23.  fixDcpSyntheticMessages returns a list of the same length and     *)
(* order.  A message is changed only if it is an assistant message whose   *)
(* `content` or `parts` is a non-empty array that does not start with a    *)
(* thinking or redacted_thinking block, and a changed message is the       *)
(* original with one synthetic redacted_thinking block prepended to that   *)
(* array, every other field kept.  Applying the fix to its own output      *)
(* changes nothing, and applyCompatibilityFixes returns its input when     *)
(* isClaudeThinkingModel is false.                                         *)
(***************************************************************************)
C23_DcpFrame ==
    /\ DcpFixed =>
           /\ Len(out.v) = Len(contents)
           /\ \A i \in 1..Len(contents) :
                  \/ out.v[i] = contents[i]
                  \/ \E key \in {"content", "parts"} :
                         /\ LacksLeadingThinking(contents[i], key)
                         /\ out.v[i] = Prepended(contents[i], key)
           /\ fixDcpSyntheticMessages(out.v) = out.v
    /\ (called = "applyCompatibilityFixes" /\ ~isClaudeModel) => out.v = contents

\* two assistant messages, of which the fix changed the first (under `content`) and the
\* second (under `parts`, its `content` being null), keeping their other fields
C23_Witness ==
    /\ DcpFixed /\ Len(contents) = 2
    /\ out.v[1] = Prepended(contents[1], "content") /\ out.v[1].model = "claude-3"
    /\ contents[2].content = NullContent
    /\ out.v[2] = Prepended(contents[2], "parts") /\ out.v[2].model = "claude-3"
    /\ Len(out.v[2].parts.a) = 3

\* the signature fields a block carries
SignaturesOf(b) == {b.signature, b.thoughtSignature} \ {Undef}

\* what the cache returns for (session, the text the block carries)
CacheAnswer(b) ==
    IF HaveCache(sessionId, cache)
    THEN getCachedSignatureFn(cache, sessionId, getThinkingText(b))
    ELSE Undef

(***************************************************************************)
(* C24.  No unverified signature is forwarded: on the trust-based path     *)
(* every signature (`signature` or `thoughtSignature`) carried by a        *)
(* non-tool block of the output of filterContentArray is the value the     *)
(* cache returns for (session, the text that this output block carries).   *)
(* The code falsifies it: the lookup uses getThinkingText of the input     *)
(* block, and sanitizeThinkingPart can emit another of its texts.          *)
(***************************************************************************)
C24_NoUnverifiedSignature ==
    (called = "filterContentArray" /\ TrustPath) =>
        \A j \in 1..Len(out.v) :
            (out.v[j].kind = "object" /\ ~isToolBlock(out.v[j])) =>
                \A sig \in SignaturesOf(out.v[j]) : sig = CacheAnswer(out.v[j])

\* the same call for a model of another family
AsOtherFamily ==
    IF called = "filterUnsignedThinkingBlocks"
    THEN filterUnsignedThinkingBlocks(contents, sessionId, cache, FALSE, keepThinking)
    ELSE filterMessagesThinkingBlocks(contents, sessionId, cache, FALSE, keepThinking)

(***************************************************************************)
(* C25.  With the keep-thinking override on, a Claude request is filtered  *)
(* exactly like a request of any other family: for every conversation,     *)
(* session and cache, filterUnsignedThinkingBlocks and                     *)
(* filterMessagesThinkingBlocks called with isClaudeModel = true return    *)
(* what they return with isClaudeModel = false (per-block trust            *)
(* evaluation, then the trailing-thinking trim on producer turns).         *)
(* The code falsifies it: the trim is tied to !isClaudeModel, override or  *)
(* not.                                                                    *)
(***************************************************************************)
C25_KeepOverrideEquivalence ==
    (called \in {"filterUnsignedThinkingBlocks", "filterMessagesThinkingBlocks"}
        /\ isClaudeModel /\ keepThinking) => out = AsOtherFamily

\* the same filter applied to what it returned
FilteredAgain ==
    IF called = "filterUnsignedThinkingBlocks"
    THEN filterUnsignedThinkingBlocks(out.v, sessionId, cache, isClaudeModel, keepThinking)
    ELSE filterMessagesThinkingBlocks(out.v, sessionId, cache, isClaudeModel, keepThinking)

(***************************************************************************)
(* C26.  The thinking filter is idempotent: for every conversation, model  *)
(* family, session and cache, filterUnsignedThinkingBlocks (or             *)
(* filterMessagesThinkingBlocks) applied to its own output returns that    *)
(* output unchanged; no block kept by the first pass is dropped or altered *)
(* by the second.                                                          *)
(* The code falsifies it: a block kept for the text getThinkingText reads  *)
(* is emitted with another text, which the second pass does not trust.     *)
(***************************************************************************)
C26_FilterIdempotent ==
    Filtered => FilteredAgain = out

\* a block without thinking shape and without signature field
PlainBlock(b) == b.kind # "object" \/ (~isThinkingPart(b) /\ ~hasSignatureField(b))

\* the plain blocks of a list, in order
PlainBlocksOf(blocks) == SelectSeq(blocks, PlainBlock)

\* what an input block may come out as: itself, or, for a thinking-shaped or signed block,
\* its sanitized form (with the cached signature restored into it when it had to be)
ComesOutAs(b, result) ==
    \/ result = b
    \/ /\ b.kind = "object" /\ (isThinkingPart(b) \/ hasSignatureField(b))
       /\ \/ result = sanitizeThinkingPart(b)
          \/ result = sanitizeThinkingPart(RestoredPart(b, CachedFor(b)))

RECURSIVE SubsequenceFrom(_, _, _, _)
\* result[i..] can be matched, in order, with blocks of given[j..]
SubsequenceFrom(result, i, given, j) ==
    IF i > Len(result) THEN TRUE
    ELSE IF j > Len(given) THEN FALSE
    ELSE IF ComesOutAs(given[j], result[i])
    THEN SubsequenceFrom(result, i + 1, given, j + 1)
    ELSE SubsequenceFrom(result, i, given, j + 1)

\* the block list under a key of a turn comes out as a subsequence of the one given,
\* under the same key, its plain blocks all kept
KeyPreserved(given, result) ==
    /\ result.k = given.k
    /\ given.k = "array" =>
           /\ SubsequenceFrom(result.a, 1, given.a, 1)
           /\ PlainBlocksOf(result.a) = PlainBlocksOf(given.a)

C28_WalkTerminates ==
    (walk.status = "walking") ~> (walk.status \in {"returned", "threw"})

\* transformAntigravityResponse has answered
Transformed == called = "transformAntigravityResponse"

\* the RetryInfo entries of the error body whose retryDelay is "Ns" with N > 0
PositiveRetryDelays ==
    LET details == IF upstream.text.k = "object" /\ upstream.text.error.k = "object"
                   THEN upstream.text.error.details ELSE NoDetails
    IN  IF details.k # "array" THEN {}
        ELSE {details.items[i].retryDelay.units : i \in
                {i \in 1..Len(details.items) :
                    /\ details.items[i].type = RetryInfoType
                    /\ details.items[i].retryDelay.matches
                    /\ ~details.items[i].retryDelay.nan
                    /\ details.items[i].retryDelay.units > 0}}

\* C29: a non-OK JSON or event-stream response whose error.details carry a
\* RetryInfo entry with retryDelay "Ns", N > 0, comes back with the same
\* status, Retry-After = ceil(N) and retry-after-ms = ceil(N * 1000).
C29_RetryHeaders ==
    (/\ Transformed
     /\ ~Ok(upstream)
     /\ isJsonResponse(upstream) \/ isEventStreamResponse(upstream)
     /\ PositiveRetryDelays # {})
    => /\ out.v.status = upstream.status
       /\ \E units \in PositiveRetryDelays :
              /\ out.v.retryAfter = Header(CeilSeconds(units))
              /\ out.v.retryAfterMs = Header(CeilMillis(units))

\* cleanJSONSchemaForAntigravity has answered
Cleaned == called = "cleanJSONSchemaForAntigravity"

\* the parameters the tool declares
DeclaredParameters == DOMAIN toolSchema.f["properties"].f

\* the parameters of the cleaned schema
CleanedParameters == DOMAIN MembersAt(out.v, "properties")

\* the names a schema lists as required
RequiredOf(s) ==
    IF HasKey(s, "required") /\ s.f["required"].k = "array"
    THEN {s.f["required"].a[i].s[1] : i \in 1..Len(s.f["required"].a)}
    ELSE {}

\* the declared parameter accepts null
Nullable(name) ==
    LET type == toolSchema.f["properties"].f[name].f["type"]
    IN  type.k = "array" /\ \E i \in 1..Len(type.a) : type.a[i] = Word("null")

\* C30: for an object schema without anyOf/oneOf, every declared parameter
\* is still a parameter of the cleaned schema, whatever its name, and a
\* non-nullable parameter listed in `required` is still listed there.
C30_ParametersPreserved ==
    Cleaned =>
        \A name \in DeclaredParameters :
            /\ name \in CleanedParameters
            /\ (name \in RequiredOf(toolSchema) /\ ~Nullable(name)) => name \in RequiredOf(out.v)

====
